---- MODULE Spec2Model ----
(***************************************************************************)
(* Workflow execution engine of backend/workflows_app/engine/executor.py:  *)
(* WorkflowExecutor walks a graph of typed nodes, evaluates each node      *)
(* against a mutable variable store and appends a record per node to the   *)
(* execution log.                                                          *)
(*                                                                         *)
(* Representation.                                                         *)
(*  - A Python str is a Text: a sequence of segments, each a literal chunk *)
(*    Lit(s) or a placeholder Ph(path) (an occurrence of {{a.b}} as the    *)
(*    regex of _resolve_variables tokenises it).                           *)
(*  - A JSON-like value is a tagged record: Str(text), Num(n), Obj(f),     *)
(*    Bool(b), Arr(items), NoneV (Python None).                            *)
(*  - A dict is a function over its key set.                               *)
(***************************************************************************)
EXTENDS Integers, Sequences, FiniteSets, TLC

VARIABLES
    nodes,              \* workflow_data['nodes'], in list order
    edges,              \* workflow_data['edges'], in list order
    initial_variables,  \* workflow_data['variables']
    input_variables,    \* the argument of execute
    pc,                 \* position of execute: "start", "loop", "awaiting", "done",
                        \* or "raised" when an exception has left it
    variables,          \* context.variables
    execution_log,      \* context.execution_log
    current_node,       \* id of current_node, or None
    iteration,          \* the local iteration of execute
    invocations,        \* how many times execute_node has been called
    in_flight,          \* ids of the nodes whose evaluator is awaiting
    open_clients,       \* how many httpx.AsyncClient the run has open
    result,             \* the dict execute returns
    runs,               \* the other runs of the executor, each parked at an await
    workflow_variables, \* workflow.variables of the Workflow row
    environments,       \* the Environment rows: id -> its variables, in key order
    executions,         \* the WorkflowExecution rows, in creation order
    execute_view,       \* the locals of one call of WorkflowViewSet.execute
    cancel_view         \* the locals of one call of WorkflowExecutionViewSet.cancel

vars == <<nodes, edges, initial_variables, input_variables, pc, variables,
          execution_log, current_node, iteration, invocations, in_flight,
          open_clients, result, runs, workflow_variables, environments,
          executions, execute_view, cancel_view>>

defn == <<nodes, edges, initial_variables, input_variables>>

\* the rows of the database and the two views on them
view == <<workflow_variables, environments, executions, execute_view, cancel_view>>

----------------------------------------------------------------------------
\* Bounds of the model

MaxNodes == 3

\* executor.py:395
max_iterations == 1000

----------------------------------------------------------------------------
\* Values

None == "None"

Lit(s) == [k |-> "lit", s |-> s]
Ph(p) == [k |-> "ph", p |-> p]

Str(text) == [t |-> "str", v |-> text]
Num(n) == [t |-> "num", n |-> n]
Obj(f) == [t |-> "obj", f |-> f]
NoneV == [t |-> "none"]
Arr(items) == [t |-> "arr", items |-> items]

EmptyDict == [x \in {} |-> NoneV]

\* {**a, **b}: the keys of both, b's value where both have the key
DictMerge(a, b) ==
    [x \in DOMAIN a \cup DOMAIN b |-> IF x \in DOMAIN b THEN b[x] ELSE a[x]]

\* d[key] = value on a dict
DictSet(d, key, value) ==
    [x \in DOMAIN d \cup {key} |-> IF x = key THEN value ELSE d[x]]

\* d.get(key, default)
DictGet(d, key, default) == IF key \in DOMAIN d THEN d[key] ELSE default

----------------------------------------------------------------------------
\* Operations on texts

\* str.strip() on a text: whitespace chunks at both ends dropped
IsSpace(seg) == seg.k = "lit" /\ seg.s \in {" ", "\n"}

RECURSIVE LStrip(_)
LStrip(text) ==
    IF text # <<>> /\ IsSpace(Head(text)) THEN LStrip(Tail(text)) ELSE text

RECURSIVE RStrip(_)
RStrip(text) ==
    IF text # <<>> /\ IsSpace(text[Len(text)])
    THEN RStrip(SubSeq(text, 1, Len(text) - 1)) ELSE text

Strip(text) == RStrip(LStrip(text))

\* the operands of 'in' the other way round: left in right
Contains_Reversed(left, right) ==
    \E i \in 1..(Len(right) + 1) :
        /\ i + Len(left) - 1 <= Len(right)
        /\ SubSeq(right, i, i + Len(left) - 1) = left

\* right in left
Contains(left, right) ==
    \E i \in 1..(Len(left) + 1) :
        /\ i + Len(right) - 1 <= Len(left)
        /\ SubSeq(left, i, i + Len(right) - 1) = right

\* the chunks float() parses, with their values
Numerals == {"0", "1", "5", "6", "200", "399", "400"}
NumeralValue(s) ==
    CASE s = "0" -> 0 [] s = "1" -> 1 [] s = "5" -> 5 [] s = "6" -> 6
      [] s = "200" -> 200 [] s = "399" -> 399 [] s = "400" -> 400

\* how many digits a numeral chunk has
NumeralWidth(s) == IF s \in {"200", "399", "400"} THEN 3 ELSE 1

\* the number a run of numeral chunks writes in decimal
RECURSIVE DecimalValue(_)
DecimalValue(t) ==
    IF t = <<>> THEN 0
    ELSE LET last == t[Len(t)].s
         IN  DecimalValue(SubSeq(t, 1, Len(t) - 1)) * 10 ^ NumeralWidth(last)
                + NumeralValue(last)

\* float(text) raises ValueError: what is left of the text without the
\* whitespace around it is no run of digits
FloatFails(text) ==
    LET t == Strip(text)
    IN  t = <<>> \/ \E i \in DOMAIN t : ~(t[i].k = "lit" /\ t[i].s \in Numerals)

Float(text) == DecimalValue(Strip(text))

----------------------------------------------------------------------------
\* Template resolver (_resolve_variables)

\* json.dumps(v) as one chunk of text; json.loads of that chunk gives v back
JsonDumps(v) == <<[k |-> "json", v |-> v]>>

\* json.loads(text): the parsed value, or "invalid" for a JSONDecodeError.
\* With whitespace around it left out, a text that is one serialisation chunk
\* parses to the chunk's value and a run of digits without a leading zero to
\* its number.
JsonLoads(text) ==
    LET t == Strip(text)
    IN  IF Len(t) = 1 /\ t[1].k = "json" THEN t[1].v
        ELSE IF ~FloatFails(t) /\ ~(Len(t) > 1 /\ t[1].s = "0") THEN Num(Float(t))
        ELSE [t |-> "invalid"]

\* str(value) for a value that is no dict or list
StrOf(value) ==
    CASE value.t = "str" -> value.v
      [] value.t = "num" -> <<Lit(ToString(value.n))>>
      [] value.t = "none" -> <<Lit("None")>>
      [] value.t = "bool" -> IF value.b THEN <<Lit("True")>> ELSE <<Lit("False")>>
      [] OTHER -> JsonDumps(value)

RECURSIVE get_nested_value(_, _)
get_nested_value(obj, path) ==
    IF path = <<>> THEN obj
    ELSE IF obj.t = "none" THEN NoneV
    ELSE IF obj.t = "obj"
        THEN get_nested_value(DictGet(obj.f, Head(path), NoneV), Tail(path))
    ELSE IF obj.t = "str"
        THEN LET parsed == JsonLoads(obj.v)
             IN  IF parsed.t = "obj"
                    THEN get_nested_value(DictGet(parsed.f, Head(path), NoneV),
                                          Tail(path))
                    ELSE NoneV
    ELSE NoneV

\* a dotted placeholder that finds nothing replaced by the empty text
replace_var_NotFoundEmpty(var_path, store) ==
    IF Len(var_path) > 1
    THEN LET root_value == DictGet(store, Head(var_path), NoneV)
             nested_value == get_nested_value(root_value, Tail(var_path))
         IN  IF root_value.t # "none" /\ nested_value.t # "none"
                THEN IF nested_value.t \in {"obj", "arr"}
                        THEN JsonDumps(nested_value)
                        ELSE StrOf(nested_value)
                ELSE <<>>
    ELSE IF Head(var_path) \in DOMAIN store
        THEN LET value == store[Head(var_path)]
             IN  IF value.t \in {"obj", "arr"} THEN JsonDumps(value) ELSE StrOf(value)
        ELSE <<Ph(var_path)>>

\* replace_var(match): the text put in place of the placeholder with this path
replace_var(var_path, store) ==
    IF Len(var_path) > 1
    THEN LET root_value == DictGet(store, Head(var_path), NoneV)
             nested_value == get_nested_value(root_value, Tail(var_path))
         IN  IF root_value.t # "none" /\ nested_value.t # "none"
                THEN IF nested_value.t \in {"obj", "arr"}
                        THEN JsonDumps(nested_value)
                        ELSE StrOf(nested_value)
                ELSE <<Ph(var_path)>>
    ELSE IF Head(var_path) \in DOMAIN store
        THEN LET value == store[Head(var_path)]
             IN  IF value.t \in {"obj", "arr"} THEN JsonDumps(value) ELSE StrOf(value)
        ELSE <<Ph(var_path)>>

\* re.sub with count=1: only the first placeholder of the text is replaced
resolve_text_FirstOnly(text, store) ==
    IF \E i \in DOMAIN text : text[i].k = "ph"
    THEN LET first == CHOOSE i \in DOMAIN text :
                         text[i].k = "ph" /\ \A j \in 1..(i - 1) : text[j].k # "ph"
         IN  SubSeq(text, 1, first - 1) \o replace_var(text[first].p, store)
                \o SubSeq(text, first + 1, Len(text))
    ELSE text

RECURSIVE resolve_text(_, _)
resolve_text(text, store) ==
    IF text = <<>> THEN <<>>
    ELSE (IF Head(text).k = "ph" THEN replace_var(Head(text).p, store)
                                 ELSE <<Head(text)>>)
         \o resolve_text(Tail(text), store)

\* a resolver that scans what it has substituted once more
resolve_variables_Twice(text, store) ==
    IF text.t # "str" THEN text
    ELSE Str(resolve_text(resolve_text(text.v, store), store))

\* _resolve_variables(text, context): a non-str passes through
resolve_variables(text, store) ==
    IF text.t # "str" THEN text ELSE Str(resolve_text(text.v, store))

----------------------------------------------------------------------------
\* Graph navigation

Bool(b) == [t |-> "bool", b |-> b]

\* self.nodes = {node['id']: node for node in ...}: the keys in the order of
\* their first occurrence, each with the node of its last occurrence
NodeIds(ns) == {ns[i].id : i \in DOMAIN ns}

NodeById(ns, id) ==
    ns[CHOOSE i \in DOMAIN ns :
          ns[i].id = id /\ \A j \in DOMAIN ns : ns[j].id = id => j <= i]

\* a lookup that gives the first node of the dict for an id it does not have
NodesGet_FirstNode(ns, id) == IF id \in NodeIds(ns) THEN id ELSE ns[1].id

\* self.nodes.get(id): the node's id when the dict has it, else None
NodesGet(ns, id) == IF id \in NodeIds(ns) THEN id ELSE None

IsFirstOccurrence(ns, i) == \A j \in DOMAIN ns : ns[j].id = ns[i].id => i <= j

\* a start lookup that falls back to the first node of the dict
get_start_node_FirstNode(ns) ==
    LET starts == {i \in DOMAIN ns :
                      IsFirstOccurrence(ns, i)
                      /\ NodeById(ns, ns[i].id).type = "start"}
    IN  IF ns = <<>> THEN None
        ELSE IF starts = {} THEN ns[1].id
        ELSE ns[CHOOSE i \in starts : \A j \in starts : i <= j].id

get_start_node(ns) ==
    LET starts == {i \in DOMAIN ns :
                      IsFirstOccurrence(ns, i)
                      /\ NodeById(ns, ns[i].id).type = "start"}
    IN  IF starts = {} THEN None
        ELSE ns[CHOOSE i \in starts : \A j \in starts : i <= j].id

\* source and target of an edge confused
get_outgoing_edges_ByTarget(es, node_id) ==
    SelectSeq(es, LAMBDA e : e.target = node_id)

get_outgoing_edges(es, node_id) == SelectSeq(es, LAMBDA e : e.source = node_id)

\* edge.get('data', {}).get('condition') == c
EdgeConditionIs(edge, c) ==
    "condition" \in DOMAIN edge.data /\ edge.data.condition = c

\* the branch tags read the other way round: 1 for true, 0 for false
RECURSIVE BranchScan_Swapped(_, _)
BranchScan_Swapped(outgoing, condition_result) ==
    IF outgoing = <<>> THEN <<>>
    ELSE IF condition_result /\ EdgeConditionIs(Head(outgoing), 1)
        THEN <<Head(outgoing).target>>
    ELSE IF ~condition_result /\ EdgeConditionIs(Head(outgoing), 0)
        THEN <<Head(outgoing).target>>
    ELSE BranchScan_Swapped(Tail(outgoing), condition_result)

\* the for loop of get_next_node over the outgoing edges: the target of the
\* edge it returns on, or <<>> when it ends without returning
RECURSIVE BranchScan(_, _)
BranchScan(outgoing, condition_result) ==
    IF outgoing = <<>> THEN <<>>
    ELSE IF condition_result /\ EdgeConditionIs(Head(outgoing), 0)
        THEN <<Head(outgoing).target>>
    ELSE IF ~condition_result /\ EdgeConditionIs(Head(outgoing), 1)
        THEN <<Head(outgoing).target>>
    ELSE BranchScan(Tail(outgoing), condition_result)

\* line 44: e['source'] raises a KeyError for an edge without the key
MissingSource(es) == \E i \in DOMAIN es : "source" \notin DOMAIN es[i]

\* edge.get('data', {}) gives None for an edge whose data is null
NullData(edge) == "t" \in DOMAIN edge.data

\* lines 60-65: edge_data.get raises an AttributeError on the first edge with
\* null data the for loop comes to before it returns
RECURSIVE ScanRaises(_, _)
ScanRaises(outgoing, condition_result) ==
    IF outgoing = <<>> THEN FALSE
    ELSE IF NullData(Head(outgoing)) THEN TRUE
    ELSE IF condition_result /\ EdgeConditionIs(Head(outgoing), 0) THEN FALSE
    ELSE IF ~condition_result /\ EdgeConditionIs(Head(outgoing), 1) THEN FALSE
    ELSE ScanRaises(Tail(outgoing), condition_result)

\* get_next_node raises instead of returning a node or None
get_next_node_raises(es, current_node_id, condition_result) ==
    \/ MissingSource(es)
    \/ /\ condition_result.t # "none"
       /\ ScanRaises(get_outgoing_edges(es, current_node_id), condition_result.b)

\* a default that takes the last outgoing edge instead of the first
get_next_node_LastEdge(ns, es, current_node_id, condition_result) ==
    LET outgoing == get_outgoing_edges(es, current_node_id)
        hit == IF condition_result.t = "none" THEN <<>>
               ELSE BranchScan(outgoing, condition_result.b)
    IN  IF outgoing = <<>> THEN None
        ELSE IF hit # <<>> THEN NodesGet(ns, hit[1])
        ELSE NodesGet(ns, outgoing[Len(outgoing)].target)

\* get_next_node(current_node_id, context, condition_result); condition_result
\* is NoneV or Bool(b)
get_next_node(ns, es, current_node_id, condition_result) ==
    LET outgoing == get_outgoing_edges(es, current_node_id)
        hit == IF condition_result.t = "none" THEN <<>>
               ELSE BranchScan(outgoing, condition_result.b)
    IN  IF outgoing = <<>> THEN None
        ELSE IF hit # <<>> THEN NodesGet(ns, hit[1])
        ELSE NodesGet(ns, outgoing[1].target)

----------------------------------------------------------------------------
\* Node evaluators.  Each gives NodeExecutionResult's success, output and
\* error, and the variable store as the evaluator leaves it.

NodeExecutionResult(success, output, error, store) ==
    [success |-> success, output |-> output, error |-> error, store |-> store]

\* an evaluator left by an exception with this message, the store as it is then
Raised(message, store) == [raised |-> message, store |-> store]

\* lines 160-166: except Exception as e in execute_node
HandleException(r) ==
    IF "raised" \in DOMAIN r
    THEN NodeExecutionResult(FALSE, NoneV, r.raised, r.store)
    ELSE r

execute_start_node(node_data, store) ==
    NodeExecutionResult(TRUE, [message |-> "Workflow started"], None, store)

\* the dotted name {{a.b}} is looked up under in a direct lookup
RECURSIVE PathKey(_)
PathKey(path) ==
    IF Len(path) = 1 THEN path[1] ELSE path[1] \o "." \o PathKey(Tail(path))

\* a name the pattern [\w.]+ of the resolver does not match
NonWords == {"a-b"}

\* f'{{{{{result_variable}}}}}' as the resolver reads it: a placeholder when
\* the name is made of word characters and dots, plain text otherwise
Template(result_variable) ==
    IF \A i \in DOMAIN result_variable : result_variable[i] \notin NonWords
    THEN <<Ph(result_variable)>>
    ELSE <<Lit("{{" \o PathKey(result_variable) \o "}}")>>

\* an end node without the direct lookup behind the resolver
execute_end_node_NoFallback(node_data, store) ==
    LET result_variable == DictGet(node_data, "result_variable", <<>>)
        result_label == DictGet(node_data, "result_label", "Result")
        result_value == Str(resolve_text(Template(result_variable), store))
    IN  IF result_variable # <<>>
        THEN NodeExecutionResult(TRUE,
                 [message |-> "Workflow completed",
                  result_label |-> result_label,
                  result_variable |-> result_variable,
                  result |-> result_value], None, store)
        ELSE NodeExecutionResult(TRUE,
                 [message |-> "Workflow completed",
                  result_label |-> result_label], None, store)

\* lines 87-106
execute_end_node(node_data, store) ==
    LET result_variable == DictGet(node_data, "result_variable", <<>>)
        result_label == DictGet(node_data, "result_label", "Result")
        template == Template(result_variable)
        resolved == resolve_text(template, store)
        result_value == IF resolved = template
                           THEN DictGet(store, PathKey(result_variable), NoneV)
                           ELSE Str(resolved)
    IN  IF result_variable # <<>>
        THEN NodeExecutionResult(TRUE,
                 [message |-> "Workflow completed",
                  result_label |-> result_label,
                  result_variable |-> result_variable,
                  result |-> result_value], None, store)
        ELSE NodeExecutionResult(TRUE,
                 [message |-> "Workflow completed",
                  result_label |-> result_label], None, store)

\* a request evaluator that leaves the response out of the variable store
execute_request_node_NoStore(node_data, store, response) ==
    LET url == resolve_text(node_data.url, store)
        response_data == Obj([status_code |-> Num(response.status_code),
                              body |-> Str(response.body),
                              request_url |-> Str(url)])
    IN  IF response.kind = "error"
        THEN NodeExecutionResult(FALSE, NoneV, response.message, store)
        ELSE NodeExecutionResult(response.status_code < 400, response_data, None, store)

\* bool(v) of a value
Truthy(v) ==
    CASE v.t = "str" -> v.v # <<>>
      [] v.t = "num" -> v.n # 0
      [] v.t = "bool" -> v.b
      [] v.t = "obj" -> DOMAIN v.f # {}
      [] v.t = "arr" -> v.items # <<>>
      [] OTHER -> FALSE

\* lines 183-187: headers given as a dict, each value resolved
DictHeaders(raw_headers, store) ==
    [k \in DOMAIN raw_headers |-> resolve_text(raw_headers[k], store)]

\* lines 188-193: headers given as a list of entries, in order
RECURSIVE ListHeaders(_, _, _)
ListHeaders(raw_headers, store, headers) ==
    IF raw_headers = <<>> THEN headers
    ELSE LET header == Head(raw_headers)
             key == Strip(DictGet(header, "key", <<>>))
             value == DictGet(header, "value", <<>>)
             enabled == DictGet(header, "enabled", TRUE)
         IN  ListHeaders(Tail(raw_headers), store,
                 IF key # <<>> /\ enabled
                 THEN DictSet(headers, key, resolve_text(value, store))
                 ELSE headers)

\* lines 181-193: raw_headers is a dict, a list, or neither
BaseHeaders(node_data, store) ==
    LET raw_headers == DictGet(node_data, "headers", Obj(EmptyDict))
    IN  CASE raw_headers.t = "obj" -> DictHeaders(raw_headers.f, store)
          [] raw_headers.t = "arr" -> ListHeaders(raw_headers.items, store, EmptyDict)
          [] OTHER -> EmptyDict

\* override headers that give way to a header already set
RECURSIVE CustomHeaders_BaseWins(_, _, _)
CustomHeaders_BaseWins(custom_headers, store, headers) ==
    IF custom_headers = <<>> THEN headers
    ELSE LET header == Head(custom_headers)
             key == Strip(DictGet(header, "key", <<>>))
             value == DictGet(header, "value", <<>>)
         IN  CustomHeaders_BaseWins(Tail(custom_headers), store,
                 IF key # <<>> /\ key \notin DOMAIN headers
                 THEN DictSet(headers, key, resolve_text(value, store))
                 ELSE headers)

\* lines 195-201: custom_headers override or add
RECURSIVE CustomHeaders(_, _, _)
CustomHeaders(custom_headers, store, headers) ==
    IF custom_headers = <<>> THEN headers
    ELSE LET header == Head(custom_headers)
             key == Strip(DictGet(header, "key", <<>>))
             value == DictGet(header, "value", <<>>)
         IN  CustomHeaders(Tail(custom_headers), store,
                 IF key # <<>>
                 THEN DictSet(headers, key, resolve_text(value, store))
                 ELSE headers)

\* lines 204-211: custom_body when it is a str with more than whitespace,
\* otherwise body, resolved when it is a non-empty str
RequestBody(node_data, store) ==
    LET custom_body == DictGet(node_data, "custom_body", NoneV)
        body == DictGet(node_data, "body", NoneV)
    IN  IF custom_body.t = "str" /\ Strip(custom_body.v) # <<>>
        THEN resolve_variables(custom_body, store)
        ELSE IF body.t = "str" /\ Truthy(body)
        THEN resolve_variables(body, store)
        ELSE body

\* the two spellings line 214 looks for
ContentType == <<Lit("Content"), Lit("-"), Lit("Type")>>
ContentTypeLower == <<Lit("content"), Lit("-"), Lit("type")>>
ApplicationJson == <<Lit("application/json")>>

\* lines 213-215
AddContentType(body, headers) ==
    IF Truthy(body) /\ ContentType \notin DOMAIN headers
                    /\ ContentTypeLower \notin DOMAIN headers
    THEN DictSet(headers, ContentType, ApplicationJson)
    ELSE headers

\* lines 179-215: the url, headers and body the evaluator has built when it
\* opens the client
BuildRequest(node_data, store) ==
    LET body == RequestBody(node_data, store)
        headers == CustomHeaders(DictGet(node_data, "custom_headers", <<>>), store,
                                 BaseHeaders(node_data, store))
    IN  [url |-> resolve_text(DictGet(node_data, "url", <<>>), store),
         headers |-> AddContentType(body, headers),
         body |-> body]

\* a status of 400 taken for a success
StatusIsSuccess_Upto400(status_code) == status_code <= 400

\* response.status_code < 400
StatusIsSuccess(status_code) == status_code < 400

\* an output_variable that is a list and no string: it is no key of a dict
UnhashableName == "<list>"

\* a failed request passed on as a success that carries the error
RequestFailed_Swallowed(message, store) ==
    NodeExecutionResult(TRUE, NoneV, message, store)

\* lines 248-254: except Exception as e around the with block
RequestFailed(message, store) == NodeExecutionResult(FALSE, NoneV, message, store)

\* a response kept only when its status is a success
StoreResponse_OnSuccessOnly(store, output_var, response_data) ==
    IF output_var # None /\ response_data.f.status_code.n < 400
    THEN DictSet(store, output_var, response_data)
    ELSE store

\* lines 238-241: if output_var: context.variables[output_var] = response_data
StoreResponse(store, output_var, response_data) ==
    IF output_var # None THEN DictSet(store, output_var, response_data) ELSE store

\* _execute_request_node; response is what client.request did: a response
\* with a status code and body, or an exception.  The assignment of line 241
\* raises a TypeError for a name that cannot be hashed.
execute_request_node(node_data, store, response) ==
    LET url == resolve_text(node_data.url, store)
        response_data == Obj([status_code |-> Num(response.status_code),
                              body |-> Str(response.body),
                              request_url |-> Str(url)])
    IN  IF response.kind = "error"
        THEN RequestFailed(response.message, store)
        ELSE IF node_data.output_variable = UnhashableName
        THEN RequestFailed("unhashable type: 'list'", store)
        ELSE NodeExecutionResult(StatusIsSuccess(response.status_code), response_data, None,
                 StoreResponse(store, node_data.output_variable, response_data))

ConditionOutcome(condition_type, left, right) ==
    CASE condition_type = "equals" -> left = right
      [] condition_type = "not_equals" -> left # right
      [] condition_type = "contains" -> Contains(left, right)
      [] condition_type = "greater_than" ->
            IF FloatFails(left) \/ FloatFails(right) THEN FALSE
            ELSE Float(left) > Float(right)
      [] condition_type = "less_than" ->
            IF FloatFails(left) \/ FloatFails(right) THEN FALSE
            ELSE Float(left) < Float(right)
      [] condition_type = "is_empty" -> left = <<>> \/ Strip(left) = <<>>
      [] condition_type = "is_not_empty" -> left # <<>> /\ Strip(left) # <<>>
      [] OTHER -> FALSE

\* a condition evaluator without the try/except around float(): the
\* ValueError reaches the handler of execute_node
execute_condition_node_Uncaught(node_data, store) ==
    LET condition_type == DictGet(node_data, "condition_type", "equals")
        left == resolve_text(DictGet(node_data, "left", <<>>), store)
        right == resolve_text(DictGet(node_data, "right", <<>>), store)
    IN  IF /\ condition_type \in {"greater_than", "less_than"}
           /\ (FloatFails(left) \/ FloatFails(right))
        THEN NodeExecutionResult(FALSE, NoneV, "could not convert string to float", store)
        ELSE NodeExecutionResult(TRUE,
                 [condition_result |-> Bool(ConditionOutcome(condition_type, left, right))],
                 None, store)

execute_condition_node(node_data, store) ==
    LET condition_type == DictGet(node_data, "condition_type", "equals")
        left == resolve_text(DictGet(node_data, "left", <<>>), store)
        right == resolve_text(DictGet(node_data, "right", <<>>), store)
    IN  NodeExecutionResult(TRUE,
            [condition_result |-> Bool(ConditionOutcome(condition_type, left, right))],
            None, store)

\* lines 116-123; delay_ms / 1000 raises a TypeError for a delay_ms that is
\* no number
execute_delay_node(node_data, store) ==
    LET delay_ms == DictGet(node_data, "delay_ms", Num(1000))
    IN  IF delay_ms.t \in {"num", "bool"}
        THEN NodeExecutionResult(TRUE, [delayed_ms |-> delay_ms], None, store)
        ELSE Raised("unsupported operand type(s) for /", store)

\* a variable node that rebinds the store to a dict of the one variable
execute_variable_node_Rebinds(node_data, store) ==
    LET var_value == resolve_variables(node_data.value, store)
        written == DictSet(EmptyDict, node_data.name, var_value)
    IN  NodeExecutionResult(TRUE,
            [variable |-> node_data.name, original |-> node_data.value,
             resolved |-> var_value, available_vars |-> DOMAIN written],
            None, written)

execute_variable_node(node_data, store) ==
    LET var_value == resolve_variables(node_data.value, store)
        written == DictSet(store, node_data.name, var_value)
    IN  NodeExecutionResult(TRUE,
            [variable |-> node_data.name, original |-> node_data.value,
             resolved |-> var_value, available_vars |-> DOMAIN written],
            None, written)

\* _execute_simple_script over the lines left; a line is its text before the
\* first '=' (name), the text after it (value), whether it holds '=' (eq) and
\* whether it starts with '#' (hash).  Gives the store and the results dict.
\* text.split('\n'): the pieces between the newlines
IsNewline(seg) == seg.k = "lit" /\ seg.s = "\n"

RECURSIVE SplitLines(_)
SplitLines(text) ==
    IF \E i \in DOMAIN text : IsNewline(text[i])
    THEN LET i == CHOOSE j \in DOMAIN text :
                     IsNewline(text[j]) /\ \A k \in 1..(j - 1) : ~IsNewline(text[k])
         IN  <<SubSeq(text, 1, i - 1)>> \o SplitLines(SubSeq(text, i + 1, Len(text)))
    ELSE <<text>>

\* '=' in line, and where the first one is
IsEq(seg) == seg.k = "lit" /\ seg.s = "="
HasEq(line) == \E i \in DOMAIN line : IsEq(line[i])
FirstEq(line) ==
    CHOOSE i \in DOMAIN line : IsEq(line[i]) /\ \A k \in 1..(i - 1) : ~IsEq(line[k])

\* line.startswith('#')
StartsWithHash(line) == line # <<>> /\ Head(line) = Lit("#")

\* a test that takes a comment with an '=' in it for an assignment
IsAssignment_CommentsToo(line) == HasEq(line)

\* line 367: '=' in line and not line.startswith('#')
IsAssignment(line) == HasEq(line) /\ ~StartsWithHash(line)

\* a text as the string it is written as: the key a name of the script gives
RECURSIVE SourceText(_)
SourceText(text) ==
    IF text = <<>> THEN ""
    ELSE (IF Head(text).k = "ph" THEN "{{" \o PathKey(Head(text).p) \o "}}"
                                 ELSE Head(text).s)
         \o SourceText(Tail(text))

\* lines 365-373: the loop over the lines of the script
RECURSIVE execute_simple_script(_, _, _)
execute_simple_script(lines, store, results) ==
    IF lines = <<>> THEN [store |-> store, results |-> results]
    ELSE LET line == Strip(Head(lines))
         IN  IF IsAssignment(line)
             THEN LET var_name == SourceText(Strip(SubSeq(line, 1, FirstEq(line) - 1)))
                      var_value ==
                          Str(resolve_text(
                                  Strip(SubSeq(line, FirstEq(line) + 1, Len(line))),
                                  store))
                  IN  execute_simple_script(Tail(lines),
                          DictSet(store, var_name, var_value),
                          DictSet(results, var_name, var_value))
             ELSE execute_simple_script(Tail(lines), store, results)

\* lines 140-145, and line 365: script.strip().split('\n')
execute_script_node(node_data, store) ==
    LET script == DictGet(node_data, "script", <<>>)
        run == execute_simple_script(SplitLines(Strip(script)), store, EmptyDict)
    IN  NodeExecutionResult(TRUE, run.results, None, run.store)

\* a loop node that keeps a counter of its own in the store
execute_loop_node_Counts(node_data, store) ==
    NodeExecutionResult(TRUE, [loop_start |-> TRUE], None,
                        DictSet(store, "loop_index", Num(0)))

\* lines 147-152
execute_loop_node(node_data, store) ==
    NodeExecutionResult(TRUE, [loop_start |-> TRUE], None, store)

\* a node of an unknown type passed over as if it had succeeded
execute_unknown_node_Skipped(node_type, store) ==
    NodeExecutionResult(TRUE, NoneV, None, store)

execute_unknown_node(node_type, store) ==
    NodeExecutionResult(FALSE, NoneV, "Unknown node type: " \o node_type, store)

KnownTypes == {"start", "end", "request", "condition", "delay", "variable",
               "script", "loop"}

\* lines 84-158: the if chain over node_type
Dispatch(node, store, response) ==
    CASE node.type = "start" -> execute_start_node(node.data, store)
      [] node.type = "end" -> execute_end_node(node.data, store)
      [] node.type = "request" -> execute_request_node(node.data, store, response)
      [] node.type = "condition" -> execute_condition_node(node.data, store)
      [] node.type = "delay" -> execute_delay_node(node.data, store)
      [] node.type = "variable" -> execute_variable_node(node.data, store)
      [] node.type = "script" -> execute_script_node(node.data, store)
      [] node.type = "loop" -> execute_loop_node(node.data, store)
      [] OTHER -> execute_unknown_node(node.type, store)

\* execute_node(node, context)
execute_node(node, store, response) == HandleException(Dispatch(node, store, response))

----------------------------------------------------------------------------
\* Workflow definitions and inputs the runs are drawn from

T(s) == <<Lit(s)>>
P(path) == <<Ph(path)>>

NodeConfigs ==
    {[type |-> "start", data |-> EmptyDict],
     [type |-> "end", data |-> [result_variable |-> <<>>, result_label |-> "Result"]],
     [type |-> "end", data |-> [result_variable |-> <<"a">>, result_label |-> "Result"]],
     [type |-> "request",
      data |-> [url |-> T("http://h/") \o P(<<"a">>), output_variable |-> None]],
     [type |-> "request",
      data |-> [url |-> T("http://h/"), output_variable |-> "resp"]],
     [type |-> "condition",
      data |-> [condition_type |-> "equals", left |-> P(<<"a">>), right |-> T("x")]],
     [type |-> "delay", data |-> [delay_ms |-> Num(1000)]],
     [type |-> "variable", data |-> [name |-> "a", value |-> Str(T("v"))]],
     [type |-> "variable",
      data |-> [name |-> "d", value |-> Str(P(<<"resp", "status_code">>))]],
     [type |-> "script",
      data |-> [script |-> <<Lit("e"), Lit("="), Ph(<<"a">>), Lit("\n"),
                             Lit("#"), Lit("f"), Lit("="), Lit("1")>>]],
     [type |-> "loop", data |-> EmptyDict],
     [type |-> "webhook", data |-> EmptyDict],
     [type |-> "", data |-> EmptyDict]}

IdOf(i) == "n" \o ToString(i)

\* the nodes list of the configurations cs, with ids n1, n2, ... in list order
WithIds(cs) ==
    [i \in DOMAIN cs |-> [id |-> IdOf(i), type |-> cs[i].type, data |-> cs[i].data]]

SeqsUpTo(S, n) == UNION {[1..k -> S] : k \in 0..n}

NodeLists == {WithIds(cs) : cs \in SeqsUpTo(NodeConfigs, MaxNodes)}

\* an edge with no branch tag, and one tagged data.condition = c
E(s, t) == [source |-> s, target |-> t, data |-> EmptyDict]
EC(s, t, c) == [source |-> s, target |-> t, data |-> [condition |-> c]]

\* Edge lists whose edges all lead forward in node order: no run over them
\* visits a node twice.  n4 is no node of a definition of three nodes.
ForwardEdgeLists ==
    {<<>>,
     <<E("n1", "n2")>>,
     <<E("n1", "n2"), E("n2", "n3")>>,
     <<E("n2", "n3"), E("n1", "n2")>>,
     <<E("n1", "n3"), E("n1", "n2"), E("n2", "n3")>>,
     <<E("n1", "n2"), EC("n2", "n3", 0), EC("n2", "n4", 1)>>,
     <<E("n1", "n2"), EC("n2", "n4", 1), EC("n2", "n3", 0)>>,
     <<E("n1", "n2"), E("n2", "n4"), EC("n2", "n3", 0)>>,
     <<EC("n1", "n4", 0), EC("n1", "n2", 1), EC("n2", "n3", 1), EC("n3", "n4", 0)>>}

\* The node types the cyclic definitions put behind the start node
CycleNodeConfigs ==
    {c \in NodeConfigs :
        \/ c.type \in {"condition", "webhook"}
        \/ c.type = "end" /\ c.data.result_variable # <<>>
        \/ c.type = "variable" /\ c.data.name = "a"}

StartNode == [type |-> "start", data |-> EmptyDict]

\* Definitions with cycles: a self loop, cycles of two and three nodes, a
\* cycle left through a branch, a cycle entered behind the start node
CyclicWorkflows ==
    {[nodes |-> WithIds(<<StartNode>>), edges |-> <<E("n1", "n1")>>]}
    \cup {[nodes |-> WithIds(<<StartNode, c2>>),
           edges |-> <<E("n1", "n2"), E("n2", "n1")>>] :
            c2 \in CycleNodeConfigs \cup {c \in NodeConfigs : c.type = "delay"}}
    \cup {[nodes |-> WithIds(<<StartNode, c2, c3>>),
           edges |-> <<E("n1", "n2"), E("n2", "n3"), E("n3", "n1")>>] :
            c2 \in {c \in NodeConfigs : c.type = "request"},
            c3 \in {c \in NodeConfigs : c.type = "end"}}
    \cup {[nodes |-> WithIds(<<StartNode, c2, c3>>), edges |-> es] :
            c2 \in CycleNodeConfigs, c3 \in CycleNodeConfigs,
            es \in {<<E("n1", "n2"), E("n2", "n3"), E("n3", "n1")>>,
                    <<E("n1", "n2"), E("n2", "n3"), E("n3", "n2")>>,
                    <<E("n1", "n2"), EC("n2", "n1", 0), EC("n2", "n3", 1),
                      E("n3", "n3")>>}}

Bodies == {T("ok")}
StatusCodes == {200, 399, 400}
Responses ==
    [kind : {"response"}, status_code : StatusCodes, body : Bodies]
    \cup {[kind |-> "error", message |-> "ConnectError"]}
NoResponse == [kind |-> "none"]

DefinitionVariables ==
    {EmptyDict, [a |-> Str(T("x")), b |-> Str(T("y"))]}
InputVariables ==
    {EmptyDict, [a |-> Str(T("z")), c |-> Str(T("z"))]}

----------------------------------------------------------------------------
\* execute

\* models.py lines 47-53: a WorkflowExecution as its field defaults make it
NewExecution ==
    [id |-> 0, status |-> "pending", input_variables |-> EmptyDict,
     output_variables |-> EmptyDict, execution_log |-> <<>>, error_message |-> None]

\* no request has reached either view, and the tables are empty
NoRequest ==
    /\ workflow_variables = EmptyDict
    /\ environments = EmptyDict
    /\ executions = <<>>
    /\ execute_view = [pc |-> "none", input_variables |-> EmptyDict,
                       environment_id |-> None, execution |-> NewExecution]
    /\ cancel_view = [pc |-> "none", id |-> 0, calls |-> 0,
                      execution |-> NewExecution, status_code |-> 0]

\* the state of a run before execute has done anything
NotStarted ==
    /\ pc = "start"
    /\ variables = EmptyDict
    /\ execution_log = <<>>
    /\ current_node = None
    /\ iteration = 0
    /\ invocations = 0
    /\ in_flight = {}
    /\ open_clients = 0
    /\ result = EmptyDict
    /\ runs = <<>>
    /\ NoRequest

Init ==
    /\ nodes \in NodeLists
    /\ edges \in ForwardEdgeLists
    /\ initial_variables \in DefinitionVariables
    /\ input_variables \in InputVariables
    /\ NotStarted

InitCycle ==
    /\ \E w \in CyclicWorkflows : nodes = w.nodes /\ edges = w.edges
    /\ initial_variables = [a |-> Str(T("x")), b |-> Str(T("y"))]
    /\ input_variables \in InputVariables
    /\ NotStarted

\* the merge with its operands swapped: the definition's value wins
SeedVariables_DefinitionWins(definition_variables, inputs) ==
    DictMerge(inputs, definition_variables)

\* line 382: {**self.initial_variables, **(input_variables or {})}
SeedVariables(definition_variables, inputs) == DictMerge(definition_variables, inputs)

\* a store that is the executor's own dict: what a run writes is written to
\* self.initial_variables
ExecutorVariables_Aliased(executor_variables, store) == store

\* self.initial_variables once the run's store holds `store`: the dict display
\* of line 382 builds a new dict, so the executor's dict stays as it was
ExecutorVariables(executor_variables, store) == executor_variables

\* lines 381-396: build the context, find the start node
Begin ==
    /\ pc = "start"
    /\ variables' = SeedVariables(initial_variables, input_variables)
    /\ initial_variables' = ExecutorVariables(initial_variables, variables')
    /\ LET start_node == get_start_node(nodes)
       IN  IF start_node = None
           THEN /\ result' = [success |-> FALSE,
                              error |-> "No start node found",
                              execution_log |-> execution_log,
                              output_variables |-> variables']
                /\ pc' = "done"
                /\ current_node' = None
           ELSE /\ current_node' = start_node
                /\ pc' = "loop"
                /\ result' = result
    /\ UNCHANGED <<nodes, edges, input_variables, execution_log, iteration, invocations,
                 in_flight, open_clients, runs, view>>

LogEntry(node, r) ==
    [node_id |-> node.id, node_type |-> node.type, success |-> r.success,
     output |-> r.output, error |-> r.error]

FailureResult(r, node, log, store) ==
    [success |-> FALSE, error |-> r.error, failed_node_id |-> node.id,
     execution_log |-> log, output_variables |-> store]

SuccessResult(log, store) ==
    [success |-> TRUE, execution_log |-> log, output_variables |-> store]

\* the ceiling compared with <= : one pass too many
LoopGuard_OffByOne == current_node # None /\ iteration <= max_iterations

\* while current_node and iteration < max_iterations
LoopGuard == current_node # None /\ iteration < max_iterations

\* a loop that logs a failed node and goes on to the next one
IsFailure_Ignored(r) == FALSE

\* line 419: if not result.success
IsFailure(r) == ~r.success

\* a loop without the break on an end node
IsEndNode_NoBreak(node) == FALSE

\* line 429: if current_node.get('type') == 'end'
IsEndNode(node) == node.type = "end"

ResponsesFor(node) == IF node.type = "request" THEN Responses ELSE {NoResponse}

\* condition_result as lines 433-435 set it
ConditionResultOf(node, r) ==
    IF node.type = "condition" THEN r.output.condition_result ELSE NoneV

\* lines 118, 219: the evaluators that await (asyncio.sleep, client.request)
Suspends(node) == node.type \in {"request", "delay"}

\* line 218: async with httpx.AsyncClient(...) as client, entered by a request
\* node before it awaits the response
OpenClient(open, node) == IF node.type = "request" THEN open + 1 ELSE open

\* a client closed by hand behind the response: a request that raises leaves
\* it open
CloseClient_OnResponseOnly(open, node, response) ==
    IF node.type = "request" /\ response.kind = "response" THEN open - 1 ELSE open

\* lines 218-246: the with block is left, by the return or by an exception,
\* and the client is closed
CloseClient(open, node, response) == IF node.type = "request" THEN open - 1 ELSE open

\* the record put in front of the log instead of behind it
AppendLog_Prepend(log, entry) == <<entry>> \o log

\* line 416: context.execution_log.append(log_entry)
AppendLog(log, entry) == Append(log, entry)

\* lines 404-441: the loop body from the return of execute_node on
Finish(node, r) ==
    LET log == AppendLog(execution_log, LogEntry(node, r))
    IN  /\ execution_log' = log
        /\ variables' = r.store
        /\ initial_variables' = ExecutorVariables(initial_variables, r.store)
        /\ IF IsFailure(r)
           THEN /\ result' = FailureResult(r, node, log, r.store)
                /\ pc' = "done"
                /\ current_node' = current_node
           ELSE IF IsEndNode(node)
           THEN /\ result' = SuccessResult(log, r.store)
                /\ pc' = "done"
                /\ current_node' = current_node
           ELSE IF get_next_node_raises(edges, node.id, ConditionResultOf(node, r))
           THEN /\ pc' = "raised"
                /\ current_node' = current_node
                /\ result' = result
           ELSE /\ current_node' =
                     get_next_node(nodes, edges, node.id, ConditionResultOf(node, r))
                /\ pc' = "loop"
                /\ result' = result

\* lines 398-441: one pass of the loop body on a node whose evaluator does
\* not await
Step ==
    /\ pc = "loop"
    /\ LoopGuard
    /\ LET node == NodeById(nodes, current_node)
       IN  /\ ~Suspends(node)
           /\ iteration' = iteration + 1
           /\ invocations' = invocations + 1
           /\ Finish(node, execute_node(node, variables, NoResponse))
    /\ UNCHANGED <<nodes, edges, input_variables, in_flight, open_clients, runs, view>>

\* an evaluator that is started and not awaited: the loop goes on to the next
\* node while the call is under way
Suspend_NotAwaited ==
    /\ pc = "loop"
    /\ LoopGuard
    /\ Suspends(NodeById(nodes, current_node))
    /\ iteration' = iteration + 1
    /\ invocations' = invocations + 1
    /\ in_flight' = in_flight \cup {current_node}
    /\ current_node' = get_next_node(nodes, edges, current_node, NoneV)
    /\ pc' = "loop"
    /\ open_clients' = OpenClient(open_clients, NodeById(nodes, current_node))
    /\ UNCHANGED <<defn, variables, execution_log, result, runs, view>>

\* lines 398-403 and the evaluator up to its await: the run is suspended
\* inside execute_node
Suspend ==
    /\ pc = "loop"
    /\ LoopGuard
    /\ Suspends(NodeById(nodes, current_node))
    /\ iteration' = iteration + 1
    /\ invocations' = invocations + 1
    /\ in_flight' = in_flight \cup {current_node}
    /\ pc' = "awaiting"
    /\ open_clients' = OpenClient(open_clients, NodeById(nodes, current_node))
    /\ UNCHANGED <<defn, variables, execution_log, current_node, result, runs, view>>

\* the awaited call is over: the rest of the evaluator and of the loop body
Resume(response) ==
    /\ pc = "awaiting"
    /\ LET node == NodeById(nodes, current_node)
       IN  /\ response \in ResponsesFor(node)
           /\ in_flight' = in_flight \ {current_node}
           /\ open_clients' = CloseClient(open_clients, node, response)
           /\ Finish(node, execute_node(node, variables, response))
    /\ UNCHANGED <<nodes, edges, input_variables, iteration, invocations, runs, view>>

\* a loop that is left only when there is no next node: at the ceiling the
\* run neither goes on nor returns
LoopExit_OnlyWithoutNode ==
    /\ pc = "loop"
    /\ current_node = None
    /\ result' = SuccessResult(execution_log, variables)
    /\ pc' = "done"
    /\ UNCHANGED <<defn, variables, execution_log, current_node, iteration, invocations,
                 in_flight, open_clients, runs, view>>

\* a loop that reports the ceiling as an error of its own
LoopExit_LimitExceeded ==
    /\ pc = "loop"
    /\ ~LoopGuard
    /\ result' = IF current_node # None
                    THEN [success |-> FALSE, error |-> "Iteration limit exceeded",
                          execution_log |-> execution_log,
                          output_variables |-> variables]
                    ELSE SuccessResult(execution_log, variables)
    /\ pc' = "done"
    /\ UNCHANGED <<defn, variables, execution_log, current_node, iteration, invocations,
                 in_flight, open_clients, runs, view>>

\* lines 398, 443-447: the loop condition is false
LoopExit ==
    /\ pc = "loop"
    /\ ~LoopGuard
    /\ result' = SuccessResult(execution_log, variables)
    /\ pc' = "done"
    /\ UNCHANGED <<defn, variables, execution_log, current_node, iteration, invocations,
                 in_flight, open_clients, runs, view>>

\* one context kept on the executor: a run that goes on finds in it what the
\* run before it left there
ContextOf_Shared(own, latest) == latest

\* lines 381-383: context is a local of the call of execute, so a run that
\* goes on has the context it built itself
ContextOf(own, latest) == own

\* the event loop leaves the run it was executing at one of its suspension
\* points (not started, awaiting, returned) and goes on with the other run of
\* the executor
Switch ==
    /\ runs # <<>>
    /\ pc \in {"start", "awaiting", "done", "raised"}
    /\ LET other == runs[1]
           context == ContextOf([variables |-> other.variables,
                                 execution_log |-> other.execution_log],
                                [variables |-> variables,
                                 execution_log |-> execution_log])
       IN  /\ runs' = <<[input_variables |-> input_variables, pc |-> pc,
                         variables |-> variables, execution_log |-> execution_log,
                         current_node |-> current_node, iteration |-> iteration,
                         invocations |-> invocations, in_flight |-> in_flight,
                         open_clients |-> open_clients, result |-> result]>>
           /\ input_variables' = other.input_variables
           /\ pc' = other.pc
           /\ variables' = context.variables
           /\ execution_log' = context.execution_log
           /\ current_node' = other.current_node
           /\ iteration' = other.iteration
           /\ invocations' = other.invocations
           /\ in_flight' = other.in_flight
           /\ open_clients' = other.open_clients
           /\ result' = other.result
    /\ UNCHANGED <<nodes, edges, initial_variables, view>>

Next ==
    \/ Begin
    \/ Step
    \/ Suspend
    \/ \E response \in Responses \cup {NoResponse} : Resume(response)
    \/ LoopExit

Spec == Init /\ [][Next]_vars

SpecCycle == InitCycle /\ [][Next]_vars

\* the event loop resumes the run after every evaluator call that returns
SpecCycleFair == SpecCycle /\ WF_vars(Next)

\* Two runs of one executor, interleaved at their suspension points
PairWorkflows ==
    {[nodes |-> WithIds(<<StartNode,
                          [type |-> "request",
                           data |-> [url |-> T("http://h/") \o P(<<"a">>),
                                     output_variable |-> "resp"]],
                          [type |-> "variable",
                           data |-> [name |-> "d",
                                     value |-> Str(P(<<"resp", "status_code">>))]],
                          [type |-> "end",
                           data |-> [result_variable |-> <<"d">>,
                                     result_label |-> "Result"]]>>),
      edges |-> <<E("n1", "n2"), E("n2", "n3"), E("n3", "n4")>>],
     [nodes |-> WithIds(<<StartNode,
                          [type |-> "variable",
                           data |-> [name |-> "e", value |-> Str(P(<<"a">>))]],
                          [type |-> "delay", data |-> [delay_ms |-> Num(1000)]],
                          [type |-> "variable",
                           data |-> [name |-> "a", value |-> Str(T("v"))]]>>),
      edges |-> <<E("n1", "n2"), E("n2", "n3"), E("n3", "n4")>>],
     [nodes |-> WithIds(<<StartNode,
                          [type |-> "request",
                           data |-> [url |-> T("http://h/"), output_variable |-> None]],
                          [type |-> "condition",
                           data |-> [condition_type |-> "equals", left |-> P(<<"a">>),
                                     right |-> T("x")]],
                          [type |-> "variable",
                           data |-> [name |-> "a", value |-> Str(T("x"))]]>>),
      edges |-> <<E("n1", "n2"), E("n2", "n3"), EC("n3", "n4", 1)>>]}

PairInputs == {EmptyDict, [a |-> Str(T("x"))], [b |-> Str(T("y"))]}

InitPair ==
    /\ \E w \in PairWorkflows : nodes = w.nodes /\ edges = w.edges
    /\ initial_variables \in {EmptyDict, [b |-> Str(T("i"))]}
    /\ input_variables \in PairInputs
    /\ pc = "start"
    /\ variables = EmptyDict
    /\ execution_log = <<>>
    /\ current_node = None
    /\ iteration = 0
    /\ invocations = 0
    /\ in_flight = {}
    /\ open_clients = 0
    /\ result = EmptyDict
    /\ \E inputs \in PairInputs :
          runs = <<[input_variables |-> inputs, pc |-> "start",
                    variables |-> EmptyDict, execution_log |-> <<>>,
                    current_node |-> None, iteration |-> 0, invocations |-> 0,
                    in_flight |-> {}, open_clients |-> 0, result |-> EmptyDict]>>
    /\ NoRequest

NextPair == Next \/ Switch

SpecPair == InitPair /\ [][NextPair]_vars

\* Definitions with nodes whose evaluator raises and with edges that lack
\* the source key or hold null as data
FaultNodeConfigs ==
    {StartNode,
     [type |-> "delay", data |-> [delay_ms |-> Num(1000)]],
     [type |-> "delay", data |-> [delay_ms |-> Str(T("soon"))]],
     [type |-> "delay", data |-> EmptyDict],
     [type |-> "condition",
      data |-> [condition_type |-> "equals", left |-> P(<<"a">>), right |-> T("x")]],
     [type |-> "variable", data |-> [name |-> "a", value |-> Str(T("v"))]],
     [type |-> "request",
      data |-> [url |-> T("http://h/x"), output_variable |-> "resp"]],
     [type |-> "request",
      data |-> [url |-> T("http://h/x"), output_variable |-> UnhashableName]]}

FaultNodeLists == {WithIds(cs) : cs \in SeqsUpTo(FaultNodeConfigs, MaxNodes)}

FaultEdgeLists ==
    {<<>>,
     <<E("n1", "n2"), E("n2", "n3")>>,
     <<E("n1", "n2"), [target |-> "n3", data |-> EmptyDict]>>,
     <<E("n1", "n2"), [source |-> "n2", target |-> "n3", data |-> NoneV]>>,
     <<E("n1", "n2"), EC("n2", "n3", 0), [source |-> "n2", target |-> "n3", data |-> NoneV]>>}

InitFault ==
    /\ nodes \in FaultNodeLists
    /\ edges \in FaultEdgeLists
    /\ initial_variables \in DefinitionVariables
    /\ input_variables \in InputVariables
    /\ NotStarted

SpecFault == InitFault /\ [][Next]_vars

\* the runs of Spec and of SpecCycle together
InitAll == Init \/ InitCycle

SpecAll == InitAll /\ [][Next]_vars

----------------------------------------------------------------------------
\* WorkflowViewSet.execute and WorkflowExecutionViewSet.cancel: one request
\* to execute a workflow, and requests to cancel the execution it creates,
\* served by different threads of the host.  Each view works on the model
\* instance it has loaded or created; the rows are read and written only by
\* objects.create, get_object and save.

MaxCancels == 2

Min2(a, b) == IF a < b THEN a ELSE b

\* values[index] of a Python list raises IndexError outside -len .. len - 1
IndexInRange(values, index) == index < Len(values) /\ index >= -Len(values)

\* values[index] of a Python list: a negative index counts from the end
PyIndex(values, index) ==
    IF index >= 0 THEN values[index + 1] ELSE values[Len(values) + index + 1]

\* views.py line 61: min(var.selected_value_index, len(var.values) - 1)
selected_idx(var) == Min2(var.selected_value_index, Len(var.values) - 1)

\* a loop that takes the disabled variables too
Selectable_DisabledToo(var) == var.values # <<>>

\* views.py lines 58-60: filter(enabled=True), if var.values
Selectable(var) == var.enabled /\ var.values # <<>>

\* views.py line 62 raises IndexError on one of the variables
SelectionRaises(env_vars) ==
    \E i \in DOMAIN env_vars :
        /\ Selectable(env_vars[i])
        /\ ~IndexInRange(env_vars[i].values, selected_idx(env_vars[i]))

\* views.py lines 58-62: env_variables[var.key] = var.values[selected_idx],
\* over the variables in the order of the query
RECURSIVE SelectedValues(_)
SelectedValues(env_vars) ==
    IF env_vars = <<>>
    THEN EmptyDict
    ELSE LET var == env_vars[Len(env_vars)]
             before == SelectedValues(SubSeq(env_vars, 1, Len(env_vars) - 1))
         IN  IF Selectable(var)
             THEN DictSet(before, var.key, PyIndex(var.values, selected_idx(var)))
             ELSE before

\* views.py lines 54-65: no environment_id, or no Environment of that id,
\* leaves env_variables empty
env_variables(environment_id) ==
    IF environment_id = None \/ environment_id \notin DOMAIN environments
    THEN EmptyDict
    ELSE SelectedValues(environments[environment_id])

\* the record of the inputs without the environment's variables
merged_variables_InputsOnly(env, inputs) == inputs

\* views.py line 67: merged_variables = {**env_variables, **input_variables}
merged_variables(env, inputs) == DictMerge(env, inputs)

\* the executor's variables with the workflow's value over the environment's
ExecutorData_WorkflowWins(workflow_vars, env) == DictMerge(env, workflow_vars)

\* views.py line 81: 'variables': {**workflow.variables, **env_variables}
ExecutorData(workflow_vars, env) == DictMerge(workflow_vars, env)

\* views.py lines 46-90: the environment's variables are read, the execution
\* row is created as running and the executor is built; its run has not begun
CreateExecution ==
    /\ execute_view.pc = "request"
    /\ LET environment_id == execute_view.environment_id
       IN  IF environment_id # None /\ environment_id \in DOMAIN environments
              /\ SelectionRaises(environments[environment_id])
           THEN /\ execute_view' = [execute_view EXCEPT !.pc = "raised"]
                /\ UNCHANGED <<executions, initial_variables, input_variables, pc>>
           ELSE LET env == env_variables(environment_id)
                    execution ==
                        [NewExecution EXCEPT
                            !.id = Len(executions) + 1,
                            !.status = "running",
                            !.input_variables =
                                merged_variables(env, execute_view.input_variables)]
                IN  /\ executions' = Append(executions, execution)
                    /\ execute_view' = [execute_view EXCEPT !.pc = "running",
                                                            !.execution = execution]
                    /\ initial_variables' = ExecutorData(workflow_variables, env)
                    /\ input_variables' = execute_view.input_variables
                    /\ pc' = "start"
    /\ UNCHANGED <<nodes, edges, variables, execution_log, current_node, iteration,
                 invocations, in_flight, open_clients, result, runs,
                 workflow_variables, environments, cancel_view>>

\* save() of a model instance: the row of its id gets every field of the
\* instance
SaveRow(rows, instance) == [rows EXCEPT ![instance.id] = instance]

\* a save that leaves a row alone once it is no longer running
SaveResult_UnlessFinished(rows, instance) ==
    IF rows[instance.id].status = "running" THEN SaveRow(rows, instance) ELSE rows

\* views.py lines 103, 118: execution.save() behind the run
SaveResult(rows, instance) == SaveRow(rows, instance)

\* views.py lines 92-124: the run has returned or raised; the view sets the
\* fields of the instance it created and saves it
StoreResult ==
    /\ execute_view.pc = "running"
    /\ pc \in {"done", "raised"}
    /\ LET execution ==
               IF pc = "raised"
               THEN [execute_view.execution EXCEPT
                        !.status = "failed", !.error_message = "exception"]
               ELSE [execute_view.execution EXCEPT
                        !.status = IF result.success THEN "completed" ELSE "failed",
                        !.error_message = IF result.success
                                             THEN @
                                             ELSE DictGet(result, "error", "Unknown error"),
                        !.execution_log = result.execution_log,
                        !.output_variables = result.output_variables]
       IN  /\ executions' = SaveResult(executions, execution)
           /\ execute_view' = [execute_view EXCEPT !.pc = "responded",
                                                   !.execution = execution]
    /\ UNCHANGED <<defn, pc, variables, execution_log, current_node, iteration,
                 invocations, in_flight, open_clients, result, runs,
                 workflow_variables, environments, cancel_view>>

\* views.py line 162: get_object loads the row of the id in the URL, or
\* answers 404
LoadExecution ==
    /\ cancel_view.pc \in {"request", "responded"}
    /\ cancel_view.calls < MaxCancels
    /\ cancel_view' =
          IF cancel_view.id \in DOMAIN executions
          THEN [cancel_view EXCEPT !.pc = "loaded", !.calls = @ + 1,
                                   !.execution = executions[cancel_view.id]]
          ELSE [cancel_view EXCEPT !.pc = "responded", !.calls = @ + 1,
                                   !.status_code = 404]
    /\ UNCHANGED <<defn, pc, variables, execution_log, current_node, iteration,
                 invocations, in_flight, open_clients, result, runs,
                 workflow_variables, environments, executions, execute_view>>

\* a cancel that writes whatever the status it loaded
Cancellable_Always(execution) == TRUE

\* views.py line 164: if execution.status != WorkflowExecution.Status.RUNNING
Cancellable(execution) == execution.status = "running"

\* views.py lines 164-173: the status of the loaded instance is checked, and
\* the instance is saved as cancelled
Cancel ==
    /\ cancel_view.pc = "loaded"
    /\ IF ~Cancellable(cancel_view.execution)
       THEN /\ cancel_view' = [cancel_view EXCEPT !.pc = "responded",
                                                  !.status_code = 400]
            /\ executions' = executions
       ELSE LET execution == [cancel_view.execution EXCEPT !.status = "cancelled"]
            IN  /\ executions' = SaveRow(executions, execution)
                /\ cancel_view' = [cancel_view EXCEPT !.pc = "responded",
                                                      !.status_code = 200,
                                                      !.execution = execution]
    /\ UNCHANGED <<defn, pc, variables, execution_log, current_node, iteration,
                 invocations, in_flight, open_clients, result, runs,
                 workflow_variables, environments, execute_view>>

EnvValue(s) == Str(T(s))

\* an EnvironmentVariable row
EnvVar(key, values, index, enabled) ==
    [key |-> key, values |-> values, selected_value_index |-> index,
     enabled |-> enabled]

\* The variables of the environment e1, in key order (Meta.ordering), one
\* row a key (unique_together)
EnvironmentVariables ==
    {<<>>,
     <<EnvVar("b", <<EnvValue("p"), EnvValue("q")>>, 1, TRUE),
       EnvVar("c", <<EnvValue("r")>>, 0, TRUE)>>,
     <<EnvVar("a", <<EnvValue("p"), EnvValue("q")>>, 5, TRUE),
       EnvVar("b", <<>>, 0, TRUE)>>,
     <<EnvVar("a", <<EnvValue("p")>>, 0, FALSE),
       EnvVar("b", <<EnvValue("r"), EnvValue("s")>>, -1, TRUE)>>,
     <<EnvVar("b", <<EnvValue("r")>>, -3, TRUE)>>}

\* e2 is the id of no environment
EnvironmentIds == {None, "e1", "e2"}

ViewWorkflows ==
    {[nodes |-> WithIds(<<StartNode,
                          [type |-> "request",
                           data |-> [url |-> T("http://h/") \o P(<<"a">>),
                                     output_variable |-> "resp"]],
                          [type |-> "end",
                           data |-> [result_variable |-> <<"a">>,
                                     result_label |-> "Result"]]>>),
      edges |-> <<E("n1", "n2"), E("n2", "n3")>>],
     [nodes |-> WithIds(<<StartNode,
                          [type |-> "delay", data |-> [delay_ms |-> Num(1000)]]>>),
      edges |-> <<E("n1", "n2")>>],
     [nodes |-> WithIds(<<[type |-> "end",
                           data |-> [result_variable |-> <<>>,
                                     result_label |-> "Result"]]>>),
      edges |-> <<>>],
     [nodes |-> WithIds(<<StartNode,
                          [type |-> "variable",
                           data |-> [name |-> "a", value |-> Str(T("v"))]]>>),
      edges |-> <<E("n1", "n2"), [target |-> "n1", data |-> EmptyDict]>>]}

\* the requests have arrived and neither view has run: no executor is built
InitView ==
    /\ \E w \in ViewWorkflows : nodes = w.nodes /\ edges = w.edges
    /\ workflow_variables \in DefinitionVariables
    /\ \E env_vars \in EnvironmentVariables : environments = [e \in {"e1"} |-> env_vars]
    /\ executions = <<>>
    /\ \E inputs \in InputVariables, environment_id \in EnvironmentIds :
          execute_view = [pc |-> "request", input_variables |-> inputs,
                          environment_id |-> environment_id,
                          execution |-> NewExecution]
    /\ cancel_view = [pc |-> "request", id |-> 1, calls |-> 0,
                      execution |-> NewExecution, status_code |-> 0]
    /\ initial_variables = EmptyDict
    /\ input_variables = EmptyDict
    /\ pc = "none"
    /\ variables = EmptyDict
    /\ execution_log = <<>>
    /\ current_node = None
    /\ iteration = 0
    /\ invocations = 0
    /\ in_flight = {}
    /\ open_clients = 0
    /\ result = EmptyDict
    /\ runs = <<>>

NextView ==
    \/ CreateExecution
    \/ Next
    \/ StoreResult
    \/ LoadExecution
    \/ Cancel

SpecView == InitView /\ [][NextView]_vars

----------------------------------------------------------------------------
\* get_next_node on its own: one call on a node of an edge list drawn from
\* all lists of up to MaxNavEdges edges

MaxNavEdges == 3

NavEdges ==
    [source : {"n1", "n2"}, target : {"n1", "n2", "n3"},
     data : {EmptyDict, [condition |-> 0], [condition |-> 1], [condition |-> 2]}]

Outcomes == {NoneV, Bool(TRUE), Bool(FALSE)}

InitNav ==
    /\ nodes = WithIds(<<StartNode, [type |-> "condition", data |-> EmptyDict]>>)
    /\ edges \in SeqsUpTo(NavEdges, MaxNavEdges)
    /\ initial_variables = EmptyDict
    /\ input_variables = EmptyDict
    /\ pc = "nav"
    /\ variables = EmptyDict
    /\ execution_log = <<>>
    /\ current_node \in {"n1", "n2"}
    /\ iteration = 0
    /\ invocations = 0
    /\ in_flight = {}
    /\ open_clients = 0
    /\ result = EmptyDict
    /\ runs = <<>>
    /\ NoRequest

Navigate(condition_result) ==
    /\ pc = "nav"
    /\ result' = [condition_result |-> condition_result,
                  next |-> get_next_node(nodes, edges, current_node, condition_result)]
    /\ pc' = "navdone"
    /\ UNCHANGED <<defn, variables, execution_log, current_node, iteration, invocations,
                 in_flight, open_clients, runs, view>>

NextNav == \E condition_result \in Outcomes : Navigate(condition_result)

SpecNav == InitNav /\ [][NextNav]_vars

----------------------------------------------------------------------------
\* _resolve_variables on its own: one call on a text of up to MaxTextLen
\* segments against a store whose variable a nests up to three levels

MaxTextLen == 2

\* the JSON values a key can hold
Leaves == {Str(T("s")), Num(5), Bool(TRUE), NoneV, Obj([d |-> Num(1)]), Arr(<<Num(1)>>)}

\* what is found under a key on the way down: a leaf, an object with the
\* next key, the text of such an object, a text that parses to a number
Nest(key, inner) ==
    Leaves \cup {Obj(DictSet(EmptyDict, key, v)) : v \in inner}
           \cup {Str(JsonDumps(Obj(DictSet(EmptyDict, key, v)))) : v \in inner}
           \cup {Str(T("1")), Str(T("s") \o JsonDumps(Obj(DictSet(EmptyDict, key, NoneV))))}

ResolveStores ==
    {EmptyDict, [a |-> Str(P(<<"b">>)), b |-> Str(T("x"))]}
        \cup {[a |-> v] : v \in Nest("b", Nest("c", Leaves))}
        \cup {[a |-> v, b |-> Str(T("x"))] : v \in Leaves}

ResolveSegments ==
    {Lit("t"), Ph(<<"a">>), Ph(<<"b">>), Ph(<<"a", "b">>), Ph(<<"a", "b", "c">>)}

ResolveTexts == {Str(text) : text \in SeqsUpTo(ResolveSegments, MaxTextLen)} \cup {Num(5)}

InitResolve ==
    /\ nodes = <<>>
    /\ edges = <<>>
    /\ initial_variables = EmptyDict
    /\ input_variables = EmptyDict
    /\ pc = "resolve"
    /\ variables \in ResolveStores
    /\ execution_log = <<>>
    /\ current_node = None
    /\ iteration = 0
    /\ invocations = 0
    /\ in_flight = {}
    /\ open_clients = 0
    /\ runs = <<>>
    /\ NoRequest
    /\ \E text \in ResolveTexts : result = [text |-> text]

Resolve ==
    /\ pc = "resolve"
    /\ result' = [text |-> result.text,
                  resolved |-> resolve_variables(result.text, variables)]
    /\ pc' = "resolved"
    /\ UNCHANGED <<defn, variables, execution_log, current_node, iteration, invocations,
                 in_flight, open_clients, runs, view>>

NextResolve == Resolve

SpecResolve == InitResolve /\ [][NextResolve]_vars

----------------------------------------------------------------------------
\* _execute_condition_node on its own: one call on a condition node whose
\* operands are texts of up to MaxOperandLen characters

MaxOperandLen == 3

\* the characters of the operands: a letter, a blank and two digits
OperandChars == {Lit("a"), Lit(" "), Lit("1"), Lit("5")}

Operands == SeqsUpTo(OperandChars, MaxOperandLen)

\* the seven types the evaluator knows and one it does not
ConditionTypes == {"equals", "not_equals", "contains", "greater_than", "less_than",
                   "is_empty", "is_not_empty", "matches"}

ConditionData ==
    [condition_type : ConditionTypes, left : Operands, right : Operands]
        \cup [left : Operands, right : Operands]

InitCond ==
    /\ \E data \in ConditionData :
            nodes = <<[id |-> "n1", type |-> "condition", data |-> data]>>
    /\ edges = <<>>
    /\ initial_variables = EmptyDict
    /\ input_variables = EmptyDict
    /\ pc = "cond"
    /\ variables = EmptyDict
    /\ execution_log = <<>>
    /\ current_node = "n1"
    /\ iteration = 0
    /\ invocations = 0
    /\ in_flight = {}
    /\ open_clients = 0
    /\ result = EmptyDict
    /\ runs = <<>>
    /\ NoRequest

Evaluate ==
    /\ pc = "cond"
    /\ result' = execute_node(NodeById(nodes, current_node), variables, NoResponse)
    /\ pc' = "conddone"
    /\ UNCHANGED <<defn, variables, execution_log, current_node, iteration, invocations,
                 in_flight, open_clients, runs, view>>

NextCond == Evaluate

SpecCond == InitCond /\ [][NextCond]_vars

----------------------------------------------------------------------------
\* The end evaluator on its own, for result variables and stores of every
\* shape

ResultVariables ==
    {<<>>, <<"a">>, <<"k">>, <<"a", "b">>, <<"a", "b", "c">>, <<"a-b">>}

EndData ==
    {[result_variable |-> rv, result_label |-> "Total"] : rv \in ResultVariables}
        \cup {[result_variable |-> rv] : rv \in ResultVariables}
        \cup {EmptyDict, [result_label |-> "Total"]}

EndStores ==
    {EmptyDict,
     [a |-> Str(T("x"))],
     [a |-> Str(P(<<"a">>))],
     [a |-> Num(5)],
     [a |-> NoneV],
     [a |-> Obj([b |-> Num(5)])],
     [a |-> Obj([b |-> NoneV])],
     [a |-> Obj([b |-> Arr(<<Num(1)>>)])],
     [a |-> Obj([b |-> Obj([c |-> Str(T("deep"))])])],
     [x \in {"a.b"} |-> Str(T("flat"))],
     [x \in {"a", "a.b"} |-> IF x = "a" THEN Obj([b |-> Num(5)]) ELSE Str(T("flat"))],
     [x \in {"a-b"} |-> Num(1)]}

InitEnd ==
    /\ \E data \in EndData : nodes = <<[id |-> "n1", type |-> "end", data |-> data]>>
    /\ edges = <<>>
    /\ initial_variables = EmptyDict
    /\ input_variables = EmptyDict
    /\ pc = "cond"
    /\ variables \in EndStores
    /\ execution_log = <<>>
    /\ current_node = "n1"
    /\ iteration = 0
    /\ invocations = 0
    /\ in_flight = {}
    /\ open_clients = 0
    /\ result = EmptyDict
    /\ runs = <<>>
    /\ NoRequest

SpecEnd == InitEnd /\ [][NextCond]_vars

----------------------------------------------------------------------------
\* The script evaluator on its own, for scripts of every shape

\* the largest number of lines of a script
MaxScriptLines == 3

Sp == Lit(" ")

ScriptLines ==
    {<<Sp, Lit("a"), Sp, Lit("="), Sp, Ph(<<"b">>), Sp>>,
     <<Lit("b"), Lit("="), Sp, Lit("x"), Sp>>,
     <<Lit("#"), Lit("c"), Lit("="), Lit("1")>>,
     <<Sp, Lit("#"), Sp, Lit("d"), Lit("="), Lit("2")>>,
     <<Lit("e"), Lit("="), Ph(<<"b">>)>>,
     <<Lit("="), Lit("z")>>,
     <<Lit("f"), Sp, Lit("="), Sp, Lit("="), Sp, Lit("1")>>,
     <<Lit("g")>>,
     <<>>,
     <<Lit("b"), Lit("="), Ph(<<"b">>), Lit("y")>>}

\* the lines with a newline between them
RECURSIVE JoinLines(_)
JoinLines(lines) ==
    IF lines = <<>> THEN <<>>
    ELSE IF Len(lines) = 1 THEN lines[1]
    ELSE lines[1] \o <<Lit("\n")>> \o JoinLines(Tail(lines))

Scripts == {JoinLines(ls) : ls \in SeqsUpTo(ScriptLines, MaxScriptLines)}

ScriptStores == {EmptyDict, [b |-> Str(T("s"))], [b |-> Num(5), e |-> Str(T("old"))]}

InitScript ==
    /\ \E script \in Scripts :
          nodes \in {<<[id |-> "n1", type |-> "script", data |-> [script |-> script]]>>,
                     <<[id |-> "n1", type |-> "script", data |-> EmptyDict]>>}
    /\ edges = <<>>
    /\ initial_variables = EmptyDict
    /\ input_variables = EmptyDict
    /\ pc = "cond"
    /\ variables \in ScriptStores
    /\ execution_log = <<>>
    /\ current_node = "n1"
    /\ iteration = 0
    /\ invocations = 0
    /\ in_flight = {}
    /\ open_clients = 0
    /\ result = EmptyDict
    /\ runs = <<>>
    /\ NoRequest

SpecScript == InitScript /\ [][NextCond]_vars

----------------------------------------------------------------------------
\* The request a request node builds, for header lists, override headers,
\* bodies and stores of every shape

\* the largest number of entries of a header list
MaxHeaders == 2

Padded(text) == <<Lit(" ")>> \o text \o <<Lit(" ")>>
XHeader == <<Lit("X-A")>>

HeaderEntries ==
    {[key |-> ContentType, value |-> T("text/plain"), enabled |-> TRUE],
     [key |-> ContentType, value |-> T("text/plain"), enabled |-> FALSE],
     [key |-> ContentTypeLower, value |-> P(<<"a">>), enabled |-> TRUE],
     [key |-> <<Lit("CONTENT"), Lit("-"), Lit("TYPE")>>, value |-> T("text/plain"),
      enabled |-> TRUE],
     [key |-> <<Lit("Content"), Lit("-"), Lit("type")>>, value |-> T("text/plain")],
     [key |-> XHeader, value |-> P(<<"a">>), enabled |-> TRUE],
     [key |-> XHeader, value |-> T("v"), enabled |-> FALSE],
     [key |-> Padded(XHeader), value |-> T("p"), enabled |-> TRUE],
     [key |-> <<Lit(" ")>>, value |-> T("v"), enabled |-> TRUE],
     [key |-> <<>>, value |-> T("v"), enabled |-> TRUE],
     [value |-> T("v"), enabled |-> TRUE]}

RawHeaders ==
    {Arr(hs) : hs \in SeqsUpTo(HeaderEntries, MaxHeaders)}
        \cup {Obj(EmptyDict), NoneV,
              Obj([k \in {Padded(XHeader)} |-> P(<<"a">>)])}

CustomHeaderLists ==
    {<<>>,
     <<[key |-> XHeader, value |-> T("w"), enabled |-> FALSE]>>,
     <<[key |-> Padded(XHeader), value |-> P(<<"a">>)], [key |-> <<Lit(" ")>>, value |-> T("w")]>>,
     <<[key |-> ContentTypeLower, value |-> T("text/xml")], [key |-> XHeader, value |-> T("w")],
       [key |-> XHeader, value |-> T("z")]>>}

RequestBodies ==
    {[x \in {} |-> NoneV],
     [body |-> Str(T("{}"))],
     [body |-> Str(<<>>)],
     [body |-> Obj([n |-> Num(1)])],
     [body |-> Str(T("{}")), custom_body |-> Str(T(" "))],
     [body |-> NoneV, custom_body |-> Str(P(<<"e">>))]}

HeaderStores == {[a |-> Str(T("x")), e |-> Str(<<>>)], [a |-> Num(5), e |-> Str(T("b"))]}

InitHeaders ==
    /\ \E hs \in RawHeaders, cs \in CustomHeaderLists, b \in RequestBodies :
          nodes = <<[id |-> "n1", type |-> "request",
                     data |-> DictMerge([url |-> T("http://h/"), output_variable |-> None,
                                         headers |-> hs, custom_headers |-> cs], b)]>>
    /\ edges = <<>>
    /\ initial_variables = EmptyDict
    /\ input_variables = EmptyDict
    /\ variables \in HeaderStores
    /\ execution_log = <<>>
    /\ current_node = "n1"
    /\ iteration = 0
    /\ invocations = 0
    /\ in_flight = {}
    /\ open_clients = 0
    /\ runs = <<>>
    /\ NoRequest
    /\ pc = "build"
    /\ result = EmptyDict

\* the evaluator of the request node up to line 216
Build ==
    /\ pc = "build"
    /\ result' = BuildRequest(NodeById(nodes, current_node).data, variables)
    /\ pc' = "built"
    /\ UNCHANGED <<nodes, edges, initial_variables, input_variables, variables,
                   execution_log, current_node, iteration, invocations, in_flight,
                   open_clients, runs, view>>

NextHeaders == Build

SpecHeaders == InitHeaders /\ [][NextHeaders]_vars

----------------------------------------------------------------------------
\* Properties of the run loop

Returned == pc = "done"

LastEntry == execution_log[Len(execution_log)]

HasOutgoingEdge(node_id) == \E i \in DOMAIN edges : edges[i].source = node_id

\* the node get_next_node selects behind the node of a log entry
NextAfter(entry) ==
    get_next_node(nodes, edges, entry.node_id,
                  IF entry.node_type = "condition"
                     THEN entry.output.condition_result ELSE NoneV)

\* C1: a failed evaluator ends the run.  A log entry with success = FALSE is
\* the last entry, the run has returned success = FALSE with that entry's error
\* and node id as error and failed_node_id, and no evaluator was called after
\* it; so every earlier entry has success = TRUE.
C1_FailureEndsRun ==
    \A i \in DOMAIN execution_log :
        ~execution_log[i].success =>
            /\ i = Len(execution_log)
            /\ invocations = i
            /\ Returned
            /\ result.success = FALSE
            /\ result.error = execution_log[i].error
            /\ "failed_node_id" \in DOMAIN result
            /\ result.failed_node_id = execution_log[i].node_id
            /\ result.execution_log = execution_log

\* a run that failed at its second node or later, at a node whose first
\* outgoing edge leads to a node of the definition
C1_Witness ==
    /\ Returned
    /\ Len(execution_log) >= 2
    /\ ~LastEntry.success
    /\ NextAfter(LastEntry) # None

\* C2: a definition with no node of type start returns success = FALSE, error
\* 'No start node found', an empty execution_log, no failed_node_id and the
\* seeded variables as output_variables, and no evaluator is ever called.
NoStartNode == \A i \in DOMAIN nodes : nodes[i].type # "start"

C2_NoStartNode ==
    NoStartNode =>
        /\ invocations = 0
        /\ execution_log = <<>>
        /\ pc \in {"start", "done"}
        /\ Returned =>
            /\ result.success = FALSE
            /\ result.error = "No start node found"
            /\ result.execution_log = <<>>
            /\ "failed_node_id" \notin DOMAIN result
            /\ result.output_variables = variables
            /\ \A k \in DOMAIN input_variables : variables[k] = input_variables[k]
            /\ \A k \in DOMAIN initial_variables \ DOMAIN input_variables :
                  variables[k] = initial_variables[k]
            /\ DOMAIN variables = DOMAIN initial_variables \cup DOMAIN input_variables

\* a returned run of a definition with nodes and edges and no start node
C2_Witness ==
    /\ Returned
    /\ NoStartNode
    /\ Len(nodes) >= 2
    /\ edges # <<>>
    /\ DOMAIN variables # {}

\* C3: an evaluated end node ends the run with success = TRUE.  A log entry
\* of an end node is the last entry, the run has returned success = TRUE and
\* no evaluator was called after it, whatever edges leave the end node.
C3_EndNodeStops ==
    \A i \in DOMAIN execution_log :
        execution_log[i].node_type = "end" =>
            /\ i = Len(execution_log)
            /\ invocations = i
            /\ Returned
            /\ result.success = TRUE
            /\ result.execution_log = execution_log

\* a run ended by an end node whose outgoing edge leads back into the run
C3_Witness ==
    /\ Returned
    /\ Len(execution_log) >= 2
    /\ LastEntry.node_type = "end"
    /\ HasOutgoingEdge(LastEntry.node_id)
    /\ \E i \in DOMAIN execution_log : execution_log[i].node_id = NextAfter(LastEntry)

\* C4: every run returns.  Under weak fairness of the run's steps (each
\* evaluator call returns and the loop goes on), execute eventually returns.
C4_Terminates == <>Returned

\* a run over a cycle that no end node, failure or missing edge ends
C4_Witness ==
    /\ Returned
    /\ result.success
    /\ LastEntry.node_type # "end"
    /\ NextAfter(LastEntry) # None
    /\ \E i \in 1..(Len(execution_log) - 1) :
          execution_log[i].node_id = LastEntry.node_id

\* C5: the execution log never holds more than max_iterations entries, and a
\* run over a cycle nothing ends (it returned success although its last node is
\* no end node and has a next node) holds exactly max_iterations entries.
C5_LogBounded ==
    /\ Len(execution_log) <= max_iterations
    /\ (/\ Returned
        /\ execution_log # <<>>
        /\ result.success
        /\ LastEntry.node_type # "end"
        /\ NextAfter(LastEntry) # None)
       => Len(execution_log) = max_iterations

\* a returned run with max_iterations log entries
C5_Witness ==
    /\ Returned
    /\ Len(execution_log) = max_iterations
    /\ NextAfter(LastEntry) # None

\* C6: a run stopped by the ceiling (max_iterations nodes evaluated, the last
\* one succeeded, is no end node and has a next node) returns success = TRUE
\* with exactly the keys of a normal completion, and the next node is not
\* evaluated.
StoppedByCeiling ==
    /\ Returned
    /\ iteration = max_iterations
    /\ current_node # None
    /\ LastEntry.success
    /\ LastEntry.node_type # "end"

C6_CeilingLooksLikeSuccess ==
    StoppedByCeiling =>
        /\ result.success = TRUE
        /\ DOMAIN result = {"success", "execution_log", "output_variables"}
        /\ result.execution_log = execution_log
        /\ result.output_variables = variables
        /\ invocations = max_iterations
        /\ Len(execution_log) = max_iterations
        /\ current_node = NextAfter(LastEntry)

C6_Witness ==
    /\ StoppedByCeiling
    /\ current_node \in NodeIds(nodes)
    /\ Len(nodes) = 3

\* C7: a node that succeeded, is no end node and has no outgoing edge ends the
\* run with success = TRUE, its record being the last of the log.
EndsNaturally(i) ==
    /\ execution_log[i].success
    /\ execution_log[i].node_type # "end"
    /\ ~HasOutgoingEdge(execution_log[i].node_id)

C7_NaturalTermination ==
    \A i \in DOMAIN execution_log :
        EndsNaturally(i) =>
            /\ i = Len(execution_log)
            /\ invocations = i
            /\ \/ pc = "loop" /\ current_node = None
               \/ /\ Returned
                  /\ result.success = TRUE
                  /\ "error" \notin DOMAIN result
                  /\ result.execution_log = execution_log

\* a run of two or more nodes that returned after a node with no outgoing
\* edge, in a definition that has edges and further nodes
C7_Witness ==
    /\ Returned
    /\ Len(execution_log) >= 2
    /\ EndsNaturally(Len(execution_log))
    /\ Len(execution_log) < Len(nodes)

\* C8: get_next_node against its reference.  With an outcome b the successor
\* is the target of the first outgoing edge, in list order, whose condition
\* tag matches b (0 for true, 1 for false), and the target of the first
\* outgoing edge when none matches; with no outcome it is the target of the
\* first outgoing edge whatever the tags.  A target that is no node, and a node
\* with no outgoing edge, give no successor.
OutgoingIndexes == {i \in DOMAIN edges : edges[i].source = current_node}

Least(S) == CHOOSE i \in S : \A j \in S : i <= j

TagMatches(i, b) ==
    /\ DOMAIN edges[i].data = {"condition"}
    /\ edges[i].data.condition = (IF b THEN 0 ELSE 1)

ReferenceNext(condition_result) ==
    LET matching == IF condition_result.t = "none" THEN {}
                    ELSE {i \in OutgoingIndexes : TagMatches(i, condition_result.b)}
        chosen == IF matching # {} THEN Least(matching) ELSE Least(OutgoingIndexes)
    IN  IF OutgoingIndexes = {} THEN None
        ELSE IF \E j \in DOMAIN nodes : nodes[j].id = edges[chosen].target
            THEN edges[chosen].target
            ELSE None

C9_KeysOnlyGrow == [][DOMAIN variables \subseteq DOMAIN variables']_vars

\* a run in which a variable node overwrote a seeded key and a later node
\* added a key
C9_Witness ==
    /\ Returned
    /\ Len(execution_log) = 3
    /\ execution_log[2].node_type = "variable"
    /\ "a" \in DOMAIN initial_variables
    /\ variables["a"] # SeedVariables(initial_variables, input_variables)["a"]
    /\ DOMAIN variables # DOMAIN initial_variables \cup DOMAIN input_variables

\* C10: the variable store a run starts with holds, for every key, the input
\* value when the key is an input key, else the definition's value, and no key
\* that is in neither.
C10_SeededStore ==
    (pc # "start" /\ invocations = 0) =>
        /\ \A k \in DOMAIN input_variables : variables[k] = input_variables[k]
        /\ \A k \in DOMAIN initial_variables \ DOMAIN input_variables :
              variables[k] = initial_variables[k]
        /\ DOMAIN variables = DOMAIN initial_variables \cup DOMAIN input_variables

\* a started run whose input overrides a definition variable and adds a key,
\* beside a definition variable the input does not name
C10_Witness ==
    /\ pc = "loop"
    /\ invocations = 0
    /\ \E k \in DOMAIN initial_variables \cap DOMAIN input_variables :
          initial_variables[k] # input_variables[k]
    /\ DOMAIN initial_variables \ DOMAIN input_variables # {}
    /\ DOMAIN input_variables \ DOMAIN initial_variables # {}

\* C11: every return hands out the whole log and the store as they are then,
\* and the log is an append-only record of the evaluator calls: a step keeps
\* the entries there are, adds at most one, the one of the node whose evaluator
\* has just returned, and the log holds one entry per call that has returned.
C11_LogIsFullRecord ==
    [][/\ Len(execution_log') >= Len(execution_log)
       /\ SubSeq(execution_log', 1, Len(execution_log)) = execution_log
       /\ Len(execution_log') = invocations' - Cardinality(in_flight')
       /\ Len(execution_log') > Len(execution_log) =>
            /\ Len(execution_log') = Len(execution_log) + 1
            /\ execution_log'[Len(execution_log')].node_id = current_node
       /\ pc' = "done" =>
            /\ result'.execution_log = execution_log'
            /\ result'.output_variables = variables'
      ]_vars

\* a run stopped by the ceiling, its store changed on the way
C11_Witness ==
    /\ StoppedByCeiling
    /\ Len(result.execution_log) = max_iterations
    /\ result.output_variables # SeedVariables(initial_variables, input_variables)

\* C12: at most one evaluator is in flight, and while one is, the run waits
\* for it: no other evaluator has been called and every earlier call has its
\* record in the log; a node is evaluated only when nothing is in flight.
C12_OneEvaluatorAtATime ==
    /\ Cardinality(in_flight) <= 1
    /\ in_flight # {} =>
          /\ pc = "awaiting"
          /\ in_flight = {current_node}
          /\ Len(execution_log) = invocations - 1
    /\ in_flight = {} => Len(execution_log) = invocations
    /\ pc = "loop" => in_flight = {}

\* a request awaiting its response behind a delay node that has returned
C12_Witness ==
    /\ pc = "awaiting"
    /\ NodeById(nodes, current_node).type = "request"
    /\ Len(execution_log) = 2
    /\ execution_log[2].node_type = "delay"

\* C15: a node whose type is none of the eight known ones, the missing type
\* included, fails: the step that logs it records success = FALSE and the
\* error 'Unknown node type: <type>', leaves the variable store as it was and
\* returns the run as failed at that node.
C15_UnknownTypeFails ==
    [][LET entry == execution_log'[Len(execution_log')]
       IN  (/\ Len(execution_log') = Len(execution_log) + 1
            /\ entry.node_type \notin KnownTypes)
              => /\ entry.success = FALSE
                 /\ entry.error = "Unknown node type: " \o entry.node_type
                 /\ entry.node_id = current_node
                 /\ variables' = variables
                 /\ pc' = "done"
                 /\ result'.success = FALSE
                 /\ result'.error = entry.error
                 /\ result'.failed_node_id = current_node
      ]_vars

\* a run failed at a node without a type, behind a node that wrote a variable
C15_Witness ==
    /\ Returned
    /\ Len(execution_log) = 3
    /\ execution_log[2].node_type = "variable"
    /\ LastEntry.node_type = ""
    /\ LastEntry.error = "Unknown node type: "
    /\ result.failed_node_id = "n3"
    /\ result.output_variables = variables

\* the entry is that of a request node that received a response
IsResponseEntry(entry) == entry.node_type = "request" /\ entry.output # NoneV

\* the entry is that of a request node that writes its response to the variable
WritesTo(entry, name) ==
    /\ entry.node_type = "request"
    /\ NodeById(nodes, entry.node_id).data.output_variable = name

\* C19: after a request node with output_variable "resp" has received a 200,
\* and as long as no later request node writes resp, variables["resp"] is an
\* object with status_code 200, and every variable node evaluated later with
\* the value "{{resp.status_code}}" resolves it to the string "200" and writes
\* that to its variable.
C19_StoredResponseIsRead ==
    \A i \in DOMAIN execution_log :
        (/\ IsResponseEntry(execution_log[i])
         /\ WritesTo(execution_log[i], "resp")
         /\ execution_log[i].output.f.status_code = Num(200)
         /\ \A k \in (i + 1)..Len(execution_log) : ~WritesTo(execution_log[k], "resp"))
          => /\ "resp" \in DOMAIN variables
             /\ variables["resp"] = execution_log[i].output
             /\ variables["resp"].f.status_code = Num(200)
             /\ \A j \in (i + 1)..Len(execution_log) :
                   (/\ execution_log[j].node_type = "variable"
                    /\ execution_log[j].output.original = Str(P(<<"resp", "status_code">>)))
                     => /\ execution_log[j].output.resolved = Str(T("200"))
                        /\ j = Len(execution_log)
                             => variables[execution_log[j].output.variable] = Str(T("200"))

\* start, a request that stored a 200 in resp, a variable node that read it
C19_Witness ==
    /\ Len(execution_log) = 3
    /\ IsResponseEntry(execution_log[2])
    /\ WritesTo(execution_log[2], "resp")
    /\ execution_log[2].output.f.status_code = Num(200)
    /\ execution_log[3].node_type = "variable"
    /\ execution_log[3].output.original = Str(P(<<"resp", "status_code">>))
    /\ variables["d"] = Str(T("200"))
    /\ variables["resp"].f.status_code = Num(200)

\* C20: a request node that received a response succeeds exactly when the
\* status code is below 400; with a status of 400 or more its entry, which
\* holds the response as output, is the last of the log and the run has
\* returned failed at that node.
C20_RequestSuccessBelow400 ==
    \A i \in DOMAIN execution_log :
        IsResponseEntry(execution_log[i]) =>
            LET entry == execution_log[i]
                status_code == entry.output.f.status_code.n
            IN  /\ entry.success = (status_code < 400)
                /\ status_code >= 400 =>
                      /\ i = Len(execution_log)
                      /\ Returned
                      /\ result.success = FALSE
                      /\ result.failed_node_id = entry.node_id
                      /\ entry.output.t = "obj"
                      /\ {"status_code", "body"} \subseteq DOMAIN entry.output.f
                      /\ result.execution_log[i].output = entry.output

\* a run failed at a request node that was answered 400
C20_Witness ==
    /\ Returned
    /\ Len(execution_log) = 2
    /\ IsResponseEntry(LastEntry)
    /\ LastEntry.output.f.status_code = Num(400)
    /\ LastEntry.output.f.body = Str(T("ok"))
    /\ result.success = FALSE
    /\ result.failed_node_id = "n2"

\* C21: a transport failure inside a request node does not raise out of the
\* evaluator: the node's entry has success = FALSE, no output and the message
\* of the failure as error, it is the last entry of the log, and the run has
\* returned failed at that node with the same message.
C21_TransportFailureFailsRun ==
    /\ pc # "raised"
    /\ \A i \in DOMAIN execution_log :
          (execution_log[i].node_type = "request" /\ execution_log[i].error # None)
            => /\ execution_log[i].success = FALSE
               /\ execution_log[i].output = NoneV
               /\ execution_log[i].error = "ConnectError"
               /\ i = Len(execution_log)
               /\ Returned
               /\ result.success = FALSE
               /\ result.error = "ConnectError"
               /\ result.failed_node_id = execution_log[i].node_id
               /\ result.execution_log = execution_log

\* a run failed at its third node, a request that could not connect
C21_Witness ==
    /\ Returned
    /\ Len(execution_log) = 3
    /\ LastEntry.node_type = "request"
    /\ LastEntry.error = "ConnectError"
    /\ result.failed_node_id = "n3"
    /\ result.error = "ConnectError"

\* C22: no exception leaves a run.  execute always returns a result with
\* success, execution_log and output_variables; an exception raised while a
\* node is evaluated shows as a failed entry with the message as error; and
\* finding the start node, selecting the next node and building the record
\* raise nothing.
C22_NoExceptionLeavesRun ==
    /\ pc # "raised"
    /\ Returned =>
          {"success", "execution_log", "output_variables"} \subseteq DOMAIN result
    /\ \A i \in DOMAIN execution_log :
          ~execution_log[i].success =>
              /\ i = Len(execution_log)
              /\ Returned
              /\ result.error = execution_log[i].error

\* C28: the HTTP client a request node opens is closed on every way out of
\* the evaluator (a response of any status, a transport error, an exception
\* while the result is built): while no evaluator is in flight the run
\* has no open client, and it never has more than one.
C28_ClientClosed ==
    /\ open_clients \in {0, 1}
    /\ in_flight = {} => open_clients = 0

\* a request has returned a response, the next one has raised while it
\* stored its result, and the run has returned
C28_Witness ==
    /\ Returned
    /\ Len(execution_log) = 3
    /\ execution_log[2].node_type = "request"
    /\ execution_log[2].success
    /\ execution_log[3].node_type = "request"
    /\ execution_log[3].error = "unhashable type: 'list'"
    /\ open_clients = 0

\* the run is about to evaluate a node of this type
Evaluates(type) ==
    pc = "loop" /\ LoopGuard /\ NodeById(nodes, current_node).type = type

\* the first edge of the edge list that leaves the node
FirstEdgeFrom(node_id) ==
    edges[CHOOSE i \in DOMAIN edges :
              /\ edges[i].source = node_id
              /\ \A j \in 1..(i - 1) : edges[j].source # node_id]

ConfiguredDelay(node_id) ==
    DictGet(NodeById(nodes, node_id).data, "delay_ms", Num(1000))

\* C32: a delay node always reports success, with the configured delay_ms
\* (1000 when none is configured) as delayed_ms of its output, for every
\* configured delay_ms.
C32_DelayAlwaysSucceeds ==
    \A i \in DOMAIN execution_log :
        execution_log[i].node_type = "delay" =>
            /\ execution_log[i].success
            /\ execution_log[i].output =
                  [delayed_ms |-> ConfiguredDelay(execution_log[i].node_id)]

\* the ids of the nodes of type start the executor holds
StartNodeIds(ns) ==
    {ns[i].id : i \in {j \in DOMAIN ns : NodeById(ns, ns[j].id).type = "start"}}

\* C23: a run goes past its entry only when the definition has exactly one
\* start node; with none or with more than one, no node is evaluated and
\* nothing is logged.
C23_OnlyOneStartProceeds ==
    Cardinality(StartNodeIds(nodes)) # 1 =>
        /\ invocations = 0
        /\ execution_log = <<>>

----------------------------------------------------------------------------
\* Properties of the condition evaluator

Evaluated == pc = "conddone"

CondData == nodes[1].data

CondType == DictGet(CondData, "condition_type", "equals")

CondResult == result.output.condition_result

\* the text is digits with nothing but blanks before and behind them
ParsesAsNumber(text) ==
    \E i, j \in DOMAIN text :
        /\ i <= j
        /\ \A k \in DOMAIN text :
              IF k < i \/ k > j THEN text[k] = Lit(" ")
              ELSE text[k] \in {Lit("1"), Lit("5")}

\* C13: the condition evaluator never fails.  For every condition type, the
\* unknown one and the missing one included, and all operands it returns
\* success = TRUE, no error and a boolean condition_result; greater_than and
\* less_than give FALSE when one of the operands does not parse as a number.
C13_ConditionNeverFails ==
    Evaluated =>
        /\ result.success = TRUE
        /\ result.error = None
        /\ CondResult \in {Bool(TRUE), Bool(FALSE)}
        /\ (/\ CondType \in {"greater_than", "less_than"}
            /\ ~(ParsesAsNumber(CondData.left) /\ ParsesAsNumber(CondData.right)))
              => CondResult = Bool(FALSE)

\* greater_than of a number and a text that is none
C13_Witness ==
    /\ Evaluated
    /\ CondType = "greater_than"
    /\ CondData.left = <<Lit("5")>>
    /\ CondData.right = <<Lit("1"), Lit("a")>>
    /\ CondResult = Bool(FALSE)

\* right occurs in left: at some offset left reads right, character by
\* character
OccursIn(right, left) ==
    \E offset \in 0..Len(left) :
        /\ offset + Len(right) <= Len(left)
        /\ \A k \in DOMAIN right : left[offset + k] = right[k]

\* C14: equals is the equality of the operands and not_equals its negation,
\* contains holds exactly when the right operand is a substring of the left,
\* is_empty exactly when the left operand is nothing but whitespace, and
\* is_not_empty is the negation of is_empty.
C14_StringConditions ==
    Evaluated =>
        LET left == CondData.left
            right == CondData.right
            blank == \A k \in DOMAIN left : left[k] = Lit(" ")
        IN  /\ CondType = "equals" => CondResult = Bool(left = right)
            /\ CondType = "not_equals" => CondResult = Bool(~(left = right))
            /\ CondType = "contains" => CondResult = Bool(OccursIn(right, left))
            /\ CondType = "is_empty" => CondResult = Bool(blank)
            /\ CondType = "is_not_empty" => CondResult = Bool(~blank)

\* contains finds a text of two characters at the end of a longer one
C14_Witness ==
    /\ Evaluated
    /\ CondType = "contains"
    /\ CondData.left = <<Lit("a"), Lit("1"), Lit("5")>>
    /\ CondData.right = <<Lit("1"), Lit("5")>>
    /\ CondResult = Bool(TRUE)

----------------------------------------------------------------------------
\* Properties of the template resolver

Resolved == pc = "resolved"

\* the placeholders of the text resolved
Placeholders ==
    IF result.text.t = "str"
    THEN {result.text.v[i].p : i \in {j \in DOMAIN result.text.v : result.text.v[j].k = "ph"}}
    ELSE {}

\* the value is an object, or the text of one, that has the key
HasKey(value, key) ==
    \/ value.t = "obj" /\ key \in DOMAIN value.f
    \/ /\ value.t = "str"
       /\ Len(value.v) = 1
       /\ value.v[1].k = "json"
       /\ value.v[1].v.t = "obj"
       /\ key \in DOMAIN value.v[1].v.f

\* the value under the key of an object or of the text of an object
UnderKey(value, key) ==
    IF value.t = "obj" THEN value.f[key] ELSE value.v[1].v.f[key]

\* every segment of the path is found, going down from the value
RECURSIVE Found(_, _)
Found(value, path) ==
    \/ path = <<>>
    \/ /\ HasKey(value, Head(path))
       /\ Found(UnderKey(value, Head(path)), Tail(path))

\* some segment of the dotted path is not found in the store
SegmentMissing(path, store) ==
    ~(Head(path) \in DOMAIN store /\ Found(store[Head(path)], Tail(path)))

\* C16: a text whose placeholders are all dotted with a segment that is not
\* found, the root absent, a key absent on the way, or the way down reaching
\* a number, a boolean, null, an array or a text that is no object, comes back
\* from the resolver as it went in.
C16_MissingSegmentKeepsText ==
    (/\ Resolved
     /\ Placeholders # {}
     /\ \A path \in Placeholders : Len(path) > 1 /\ SegmentMissing(path, variables))
        => result.resolved = result.text

\* {{a.b.c}} kept in a text: the way down ends at the number under b
C16_Witness ==
    /\ Resolved
    /\ variables = [a |-> Obj([b |-> Num(5)])]
    /\ result.text = Str(<<Ph(<<"a", "b", "c">>), Lit("t")>>)
    /\ result.resolved = result.text

\* str(value), or json.dumps(value) for an object or array
Stringified(value) ==
    IF value.t \in {"obj", "arr"} THEN JsonDumps(value) ELSE StrOf(value)

\* C17: when variables[a] is an object holding b, an object holding c, the
\* text "{{a.b.c}}" resolves to the stringified value of c, the JSON text for
\* an object or array, whatever JSON value c is, null included.
C17_NestedValueStringified ==
    (/\ Resolved
     /\ result.text = Str(<<Ph(<<"a", "b", "c">>)>>)
     /\ "a" \in DOMAIN variables
     /\ variables["a"].t = "obj"
     /\ "b" \in DOMAIN variables["a"].f
     /\ variables["a"].f["b"].t = "obj"
     /\ "c" \in DOMAIN variables["a"].f["b"].f)
        => result.resolved = Str(Stringified(variables["a"].f["b"].f["c"]))

\* what the claim says of one segment of a text: a literal stays, {{k}} stays
\* when k is no key of the store and becomes the stringified value when it is;
\* a dotted placeholder becomes what it resolves to on its own
SegmentResolution(seg, store) ==
    IF seg.k # "ph" THEN <<seg>>
    ELSE IF Len(seg.p) > 1 THEN replace_var(seg.p, store)
    ELSE IF seg.p[1] \in DOMAIN store THEN Stringified(store[seg.p[1]])
    ELSE <<seg>>

RECURSIVE Piecewise(_, _)
Piecewise(text, store) ==
    IF text = <<>> THEN <<>>
    ELSE SegmentResolution(Head(text), store) \o Piecewise(Tail(text), store)

\* C18: {{k}} is left as it is when k is no key of the store and replaced by
\* the stringified value, the JSON text for objects and arrays, when it is;
\* the placeholders of a text are resolved each on its own, so the result is
\* the concatenation of what the segments give one by one.
C18_SingleSegmentAndIndependence ==
    (Resolved /\ result.text.t = "str")
        => result.resolved = Str(Piecewise(result.text.v, variables))

\* {{b}} kept for want of b, next to {{a}} replaced by the JSON text of an array
C18_Witness ==
    /\ Resolved
    /\ variables = [a |-> Arr(<<Num(1)>>)]
    /\ result.text = Str(<<Ph(<<"b">>), Ph(<<"a">>)>>)
    /\ result.resolved = Str(<<Ph(<<"b">>)>> \o JsonDumps(Arr(<<Num(1)>>)))

----------------------------------------------------------------------------
\* Properties of the request a request node builds

Built == pc = "built"

\* the request node of the state and its headers before line 214
RequestData == NodeById(nodes, current_node).data
HeadersBeforeDefault ==
    CustomHeaders(DictGet(RequestData, "custom_headers", <<>>), variables,
                  BaseHeaders(RequestData, variables))

\* a header name in lower case
LowerChunk(c) ==
    CASE c \in {"Content", "CONTENT", "content"} -> "content"
      [] c \in {"Type", "TYPE", "type"} -> "type"
      [] c = "X-A" -> "x-a"
      [] OTHER -> c
Lower(name) == [i \in DOMAIN name |-> Lit(LowerChunk(name[i].s))]

\* the header map has a Content-Type header under some letter case
HasContentType(headers) == \E k \in DOMAIN headers : Lower(k) = ContentTypeLower

\* C24: with a body and no Content-Type header under any letter case the
\* evaluator adds Content-Type: application/json; with a Content-Type header
\* present under any letter case it adds none.
C24_ContentTypeDefault ==
    Built =>
        /\ (Truthy(result.body) /\ ~HasContentType(HeadersBeforeDefault)) =>
               result.headers = DictSet(HeadersBeforeDefault, ContentType, ApplicationJson)
        /\ HasContentType(HeadersBeforeDefault) =>
               result.headers = HeadersBeforeDefault

\* the header list and the override list of the request node, and the
\* fields of an entry as header.get reads them
HeaderList == DictGet(RequestData, "headers", Obj(EmptyDict)).items
OverrideList == DictGet(RequestData, "custom_headers", <<>>)
KeyOf(header) == DictGet(header, "key", <<>>)
ValueOf(header) == DictGet(header, "value", <<>>)
EnabledOf(header) == DictGet(header, "enabled", TRUE)
ListForm == DictGet(RequestData, "headers", Obj(EmptyDict)).t = "arr"

\* the entries of a list that count: the enabled ones of the header list,
\* all of the override list
Counted(entries, checked) ==
    {i \in DOMAIN entries : checked => EnabledOf(entries[i])}

\* the entries of a list that set the header named k, and the last of them
SettersOf(entries, checked, k) ==
    {i \in Counted(entries, checked) : Strip(KeyOf(entries[i])) = k}
LastSetter(entries, checked, k) ==
    entries[CHOOSE i \in SettersOf(entries, checked, k) :
                \A j \in SettersOf(entries, checked, k) : j <= i]
NamesSet(entries, checked) ==
    {Strip(KeyOf(entries[i])) : i \in Counted(entries, checked)} \ {<<>>}

\* C25 (as the code has it): for list-form headers the header map holds
\* exactly the enabled entries whose key, trimmed of the whitespace around
\* it, is not empty, under the trimmed key, and the override headers with
\* such a key, enabled or not (and the defaulted Content-Type); each value is resolved
\* against the store, a later entry of a list replaces an earlier one with
\* the same key, and an override header replaces a list entry.
C25_HeaderMap ==
    (Built /\ ListForm) =>
        /\ \A k \in NamesSet(OverrideList, FALSE) :
              /\ k \in DOMAIN result.headers
              /\ result.headers[k] =
                    resolve_text(ValueOf(LastSetter(OverrideList, FALSE, k)), variables)
        /\ \A k \in NamesSet(HeaderList, TRUE) \ NamesSet(OverrideList, FALSE) :
              /\ k \in DOMAIN result.headers
              /\ result.headers[k] =
                    resolve_text(ValueOf(LastSetter(HeaderList, TRUE, k)), variables)
        /\ \A k \in DOMAIN result.headers :
              \/ k \in NamesSet(HeaderList, TRUE) \cup NamesSet(OverrideList, FALSE)
              \/ k = ContentType /\ result.headers[k] = ApplicationJson
                                 /\ Truthy(result.body)

\* a disabled entry and an enabled one with whitespace around its key are
\* in the list, and an override header replaces an enabled entry
C25_Witness ==
    /\ Built
    /\ ListForm
    /\ \E i \in DOMAIN HeaderList : ~EnabledOf(HeaderList[i])
    /\ \E i \in DOMAIN HeaderList :
          /\ EnabledOf(HeaderList[i])
          /\ KeyOf(HeaderList[i]) = Padded(XHeader)
    /\ XHeader \in NamesSet(OverrideList, FALSE)
    /\ result.headers[XHeader] = T("z")

\* the names the enabled entries with a non-empty key give, as written
NamesWritten(entries, checked) ==
    {KeyOf(entries[i]) : i \in Counted(entries, checked)} \ {<<>>}

\* C25 (as stated): for list-form headers the header map holds exactly the
\* enabled entries with a non-empty key and the override headers (and the
\* defaulted Content-Type).
C25_HeaderMapAsStated ==
    (Built /\ ListForm) =>
        /\ \A k \in NamesWritten(HeaderList, TRUE) \cup NamesWritten(OverrideList, FALSE) :
              k \in DOMAIN result.headers
        /\ \A k \in DOMAIN result.headers :
              \/ k \in NamesWritten(HeaderList, TRUE) \cup NamesWritten(OverrideList, FALSE)
              \/ k = ContentType /\ result.headers[k] = ApplicationJson

----------------------------------------------------------------------------
\* Properties of two runs of one executor

\* the run the event loop is executing and the run it has left
Executing ==
    [input_variables |-> input_variables, pc |-> pc, variables |-> variables,
     execution_log |-> execution_log, current_node |-> current_node,
     iteration |-> iteration, invocations |-> invocations, in_flight |-> in_flight,
     open_clients |-> open_clients, result |-> result]
Left == runs[1]

\* what client.request did for the request node of a log entry
ResponseSeen(entry) ==
    IF entry.node_type # "request" THEN NoResponse
    ELSE IF entry.error # None THEN [kind |-> "error", message |-> entry.error]
    ELSE [kind |-> "response", status_code |-> entry.output.f.status_code.n,
          body |-> entry.output.f.body.v]

\* the HTTP responses a run was given, in order
ResponsesGiven(log) ==
    LET requests == SelectSeq(log, LAMBDA entry : entry.node_type = "request")
    IN  [i \in DOMAIN requests |-> ResponseSeen(requests[i])]

\* what the claim compares of a run that has returned
Outcome(run) ==
    [visited |-> [i \in DOMAIN run.execution_log |-> run.execution_log[i].node_id],
     success |-> run.result.success,
     error |-> DictGet(run.result, "error", None),
     failed_node_id |-> DictGet(run.result, "failed_node_id", None),
     output_variables |-> run.result.output_variables]

SameInputs ==
    /\ runs # <<>>
    /\ pc = "done"
    /\ Left.pc = "done"
    /\ input_variables = Left.input_variables
    /\ ResponsesGiven(execution_log) = ResponsesGiven(Left.execution_log)

RECURSIVE StoreAfter(_, _)
StoreAfter(log, store) ==
    IF log = <<>> THEN store
    ELSE StoreAfter(Tail(log),
             execute_node(NodeById(nodes, Head(log).node_id), store,
                          ResponseSeen(Head(log))).store)

\* the context of a run holds what the run itself has put there, and nothing
\* else
OwnContext(run) ==
    IF run.pc = "start"
    THEN run.variables = EmptyDict /\ run.execution_log = <<>>
    ELSE /\ Len(run.execution_log) = run.invocations - Cardinality(run.in_flight)
         /\ run.variables =
               StoreAfter(run.execution_log,
                          SeedVariables(initial_variables, run.input_variables))

\* C27: the context is private to a run.  With two runs of one executor
\* interleaved at their suspension points, the variables and the log of
\* each run are what its own input and its own nodes have made them, and
\* no step changes the initial variables of the definition.
C27_ContextIsPrivate ==
    /\ [](runs # <<>> => OwnContext(Executing) /\ OwnContext(Left))
    /\ [][initial_variables' = initial_variables]_vars

\* one run has written a variable and is awaiting; the other, begun after
\* that with a different input, is under way and has no such variable
C27_Witness ==
    /\ runs # <<>>
    /\ pc = "loop"
    /\ Left.pc = "awaiting"
    /\ input_variables # Left.input_variables
    /\ "e" \in DOMAIN Left.variables
    /\ "e" \notin DOMAIN variables
    /\ Len(Left.execution_log) = 2
    /\ Len(execution_log) = 1

----------------------------------------------------------------------------
\* Properties of the end evaluator

EndNodeData == NodeById(nodes, current_node).data
EndEvaluated == pc = "conddone" /\ NodeById(nodes, current_node).type = "end"

\* the name the end node is configured with (empty: not configured), the
\* text {{name}} and what the resolver makes of it
ResultName == DictGet(EndNodeData, "result_variable", <<>>)
ResultTemplate == Template(ResultName)
ResultResolution == resolve_text(ResultTemplate, variables)

\* C29: an end node always succeeds.  With a result_variable its output has
\* result_variable, result_label and result; result is the resolution of
\* {{result_variable}} when the resolver changes that text, and otherwise
\* the value the store holds under the key result_variable, null when it
\* holds none.  Without a result_variable the output has no result.
C29_EndNodeResult ==
    EndEvaluated =>
        /\ result.success
        /\ result.error = None
        /\ result.store = variables
        /\ result.output.message = "Workflow completed"
        /\ result.output.result_label = DictGet(EndNodeData, "result_label", "Result")
        /\ IF ResultName = <<>>
           THEN DOMAIN result.output = {"message", "result_label"}
           ELSE /\ DOMAIN result.output =
                     {"message", "result_label", "result_variable", "result"}
                /\ result.output.result_variable = ResultName
                /\ result.output.result =
                     IF ResultResolution # ResultTemplate
                     THEN Str(ResultResolution)
                     ELSE IF PathKey(ResultName) \in DOMAIN variables
                     THEN variables[PathKey(ResultName)]
                     ELSE NoneV

\* a dotted result_variable that the resolver leaves as it is and that the
\* store holds as a key of its own
C29_Witness ==
    /\ EndEvaluated
    /\ ResultName = <<"a", "b">>
    /\ ResultResolution = ResultTemplate
    /\ result.output.result = Str(T("flat"))

----------------------------------------------------------------------------
\* Properties of the script evaluator

ScriptEvaluated == pc = "conddone" /\ NodeById(nodes, current_node).type = "script"

\* the script of the node and its lines, as written and trimmed
ScriptText == DictGet(NodeById(nodes, current_node).data, "script", <<>>)
WrittenLines == SplitLines(Strip(ScriptText))
TrimmedLines == [i \in DOMAIN WrittenLines |-> Strip(WrittenLines[i])]

\* the text of a line before its first '=' and the text after it
BeforeEq(line) == SubSeq(line, 1, FirstEq(line) - 1)
AfterEq(line) == SubSeq(line, FirstEq(line) + 1, Len(line))

\* a line that assigns: it has an '=' and does not start with '#'
Assigns(line) == HasEq(line) /\ ~StartsWithHash(line)

\* the store and the assignments made after the first n of the lines, when
\* a line that assigns gives the variable named by the trimmed text before
\* its first '=' the resolution of the text after it, trimmed or as written
RECURSIVE After(_, _, _)
After(n, lines, trimmed) ==
    IF n = 0 THEN [store |-> variables, made |-> EmptyDict]
    ELSE LET before == After(n - 1, lines, trimmed)
             line == lines[n]
             name == SourceText(Strip(BeforeEq(line)))
             value == IF trimmed THEN Strip(AfterEq(line)) ELSE AfterEq(line)
             text == Str(resolve_text(value, before.store))
         IN  IF Assigns(line)
             THEN [store |-> DictSet(before.store, name, text),
                   made |-> DictSet(before.made, name, text)]
             ELSE before

\* C30 (as the code has it): the script node takes its lines in order, each
\* trimmed of the whitespace around it.  A trimmed line with an '=' that
\* does not start with '#' assigns to the variable named by the trimmed
\* text before the first '=' the resolution of the trimmed text after it;
\* every other line changes nothing; a line resolves against the store the
\* lines before it have left; and the node always succeeds, its output
\* being the assignments made.
C30_ScriptAssignments ==
    ScriptEvaluated =>
        LET after == After(Len(TrimmedLines), TrimmedLines, TRUE)
        IN  /\ result.success
            /\ result.error = None
            /\ result.store = after.store
            /\ result.output = after.made

\* a script of three lines: an assignment, a comment with an '=' in it, and
\* an assignment that reads the variable the first line has set
C30_Witness ==
    /\ ScriptEvaluated
    /\ Len(TrimmedLines) = 3
    /\ Assigns(TrimmedLines[1])
    /\ StartsWithHash(TrimmedLines[2]) /\ HasEq(TrimmedLines[2])
    /\ Assigns(TrimmedLines[3])
    /\ AfterEq(TrimmedLines[3]) = P(<<"b">>)
    /\ variables = EmptyDict
    /\ result.store = [b |-> Str(T("x")), e |-> Str(T("x"))]

\* C30 (as stated): a line with an '=' that does not start with '#' assigns
\* the resolution of the text after the first '=' to the variable named by
\* the trimmed text before it, every other line changes nothing, and the
\* node always succeeds.
C30_ScriptAssignmentsAsStated ==
    ScriptEvaluated =>
        LET after == After(Len(WrittenLines), WrittenLines, FALSE)
        IN  /\ result.success
            /\ result.store = after.store

----------------------------------------------------------------------------
\* Properties of the descent into JSON text

\* "{{a.b.c}}" has been resolved against a store whose a is an object that
\* holds a string under b
DescentThroughText ==
    /\ Resolved
    /\ result.text = Str(<<Ph(<<"a", "b", "c">>)>>)
    /\ "a" \in DOMAIN variables
    /\ variables["a"].t = "obj"
    /\ "b" \in DOMAIN variables["a"].f
    /\ variables["a"].f["b"].t = "str"

\* what json.loads makes of that string
ParsedText == JsonLoads(variables["a"].f["b"].v)

\* C33: when the descent of a dotted placeholder comes to a string that is
\* the text of a JSON object, it goes on in the parsed object: "{{a.b.c}}"
\* with b the text of an object holding c resolves to the stringified c;
\* when the string does not parse, or parses to something that is no
\* object, the placeholder is left as it is.
C33_JsonTextDescent ==
    DescentThroughText =>
        IF ParsedText.t = "obj"
        THEN "c" \in DOMAIN ParsedText.f =>
                 result.resolved = Str(Stringified(ParsedText.f["c"]))
        ELSE result.resolved = result.text

----------------------------------------------------------------------------
\* Properties of the trace as a path of the graph

\* the edges that leave a node, by their place in the edge list
OutgoingOf(node_id) == {i \in DOMAIN edges : edges[i].source = node_id}

\* the edge the navigator selects behind a log entry: for a condition node
\* the first outgoing edge tagged with its outcome, and the first outgoing
\* edge when there is none or the node is no condition
SelectedEdge(entry) ==
    LET out == OutgoingOf(entry.node_id)
        matching == IF entry.node_type = "condition"
                    THEN {i \in out : TagMatches(i, entry.output.condition_result.b)}
                    ELSE {}
    IN  edges[IF matching # {} THEN Least(matching) ELSE Least(out)]

\* C34: the trace of a run is a path of the graph from the start node.  The
\* first record is that of the start node, and the node of every later
\* record is the target of an outgoing edge of the node of the record
\* before it: of the edge the navigator selects for that node's outcome.
C34_TraceIsPath ==
    /\ execution_log # <<>> =>
          /\ execution_log[1].node_id = get_start_node(nodes)
          /\ execution_log[1].node_type = "start"
    /\ \A i \in 1..(Len(execution_log) - 1) :
          /\ OutgoingOf(execution_log[i].node_id) # {}
          /\ execution_log[i + 1].node_id = SelectedEdge(execution_log[i]).target

\* a run through a condition node that came out true and whose edge for
\* true is not the first of its outgoing edges
C34_Witness ==
    /\ Returned
    /\ Len(execution_log) = 3
    /\ execution_log[2].node_type = "condition"
    /\ execution_log[2].output.condition_result = Bool(TRUE)
    /\ edges = <<E("n1", "n2"), EC("n2", "n4", 1), EC("n2", "n3", 0)>>
    /\ execution_log[3].node_id = "n3"

\* the edge selected behind the i-th record leads to an id that is no node
\* of the definition
SelectsMissingNode(i) ==
    /\ execution_log[i].success
    /\ execution_log[i].node_type # "end"
    /\ OutgoingOf(execution_log[i].node_id) # {}
    /\ SelectedEdge(execution_log[i]).target \notin NodeIds(nodes)

\* C35: when the selected edge leads to an id that is no node of the
\* definition, the run stops there and returns success = TRUE without an
\* error, as it does behind a node without outgoing edges; no other
\* outgoing edge of the node is tried.
C35_MissingTargetEndsRun ==
    \A i \in DOMAIN execution_log :
        SelectsMissingNode(i) =>
            /\ i = Len(execution_log)
            /\ invocations = i
            /\ \/ pc = "loop" /\ current_node = None
               \/ /\ Returned
                  /\ result.success = TRUE
                  /\ "error" \notin DOMAIN result
                  /\ result.execution_log = execution_log

\* a run that has returned behind a node whose first outgoing edge leads to
\* no node, while a later outgoing edge of it leads to a node never evaluated
C35_Witness ==
    /\ Returned
    /\ Len(execution_log) = 2
    /\ SelectsMissingNode(2)
    /\ \E i \in OutgoingOf("n2") : edges[i].target \in NodeIds(nodes)
    /\ result.success

----------------------------------------------------------------------------
\* Properties of the store behind a request node

\* the step in which the request evaluator of the run goes on behind its
\* await and returns
RequestReturns ==
    /\ pc = "awaiting"
    /\ NodeById(nodes, current_node).type = "request"
    /\ Len(execution_log') = Len(execution_log) + 1

RequestOutputVariable == NodeById(nodes, current_node).data.output_variable

\* C36: a request node with an output_variable writes the response object
\* into the store whenever a response is received, also one with a status
\* of 400 or more, after which the run fails with the response in its
\* output_variables; on a transport failure the store stays as it is; and
\* without an output_variable the node never changes the store.
C36_RequestStoreEffect ==
    [][RequestReturns =>
          LET entry == execution_log'[Len(execution_log')]
          IN  /\ variables' =
                    IF entry.error = None /\ RequestOutputVariable # None
                    THEN DictSet(variables, RequestOutputVariable, entry.output)
                    ELSE variables
              /\ entry.error = None =>
                    /\ entry.output.t = "obj"
                    /\ entry.output.f.status_code.n \in StatusCodes
              /\ ~entry.success =>
                    /\ pc' = "done"
                    /\ ~result'.success
                    /\ result'.output_variables = variables']_vars

\* a run that failed at a request node answered with status 400 and has the
\* response in the output_variables it returned
C36_Witness ==
    /\ Returned
    /\ ~result.success
    /\ execution_log # <<>>
    /\ LastEntry.node_type = "request"
    /\ LastEntry.error = None
    /\ LastEntry.output.f.status_code = Num(400)
    /\ "resp" \in DOMAIN result.output_variables
    /\ result.output_variables["resp"] = LastEntry.output
    /\ "resp" \notin DOMAIN SeedVariables(initial_variables, input_variables)

----------------------------------------------------------------------------
\* Properties of the resolver as a single pass

\* the text resolved is one placeholder {{k}} for a key k of the store that
\* holds a string
OneStringPlaceholder ==
    /\ Resolved
    /\ result.text.t = "str"
    /\ Len(result.text.v) = 1
    /\ result.text.v[1].k = "ph"
    /\ Len(result.text.v[1].p) = 1
    /\ result.text.v[1].p[1] \in DOMAIN variables
    /\ variables[result.text.v[1].p[1]].t = "str"

\* C37: resolution is a single pass.  The text put in place of a
\* placeholder is not scanned again: {{k}} becomes the string under k as it
\* is, placeholders in it included, so with a = "{{b}}" and b = "x" the text
\* "{{a}}" resolves to "{{b}}", which a second resolution would turn into
\* "x".
C37_SinglePass ==
    /\ OneStringPlaceholder => result.resolved = variables[result.text.v[1].p[1]]
    /\ (/\ Resolved
        /\ variables = [a |-> Str(P(<<"b">>)), b |-> Str(T("x"))]
        /\ result.text = Str(P(<<"a">>)))
          => /\ result.resolved = Str(P(<<"b">>))
             /\ resolve_variables(result.resolved, variables) = Str(T("x"))

\* "{{a}}" resolved to "{{b}}" against a = "{{b}}", b = "x": resolving the
\* result again gives another text
C37_Witness ==
    /\ Resolved
    /\ variables = [a |-> Str(P(<<"b">>)), b |-> Str(T("x"))]
    /\ result.text = Str(P(<<"a">>))
    /\ result.resolved = Str(P(<<"b">>))
    /\ resolve_variables(result.resolved, variables) # result.resolved


----------------------------------------------------------------------------
\* Properties of the execution row under execute and cancel

TerminalStatuses == {"completed", "failed", "cancelled"}

\* the cancel view answers that it has cancelled the execution
CancelSucceeds ==
    /\ cancel_view.pc = "loaded"
    /\ cancel_view'.pc = "responded"
    /\ cancel_view'.status_code = 200

\* C38: a row whose status is completed, failed or cancelled keeps that status
\* in every step of the execute view and of the cancel view, so a row
\* cancelled during the run is still cancelled when the run has been stored;
\* and the cancel view answers with success only when the status of the row
\* is running.
C38_TerminalStatusIsFinal ==
    /\ [][\A i \in DOMAIN executions :
             executions[i].status \in TerminalStatuses
                 => executions'[i].status = executions[i].status]_vars
    /\ [][CancelSucceeds => executions[cancel_view.id].status = "running"]_vars

----------------------------------------------------------------------------
\* Properties of the variables of a run started by the execute view

\* the variables of the environment the request names; none when it names
\* no environment or one that does not exist
RequestedVariables ==
    IF execute_view.environment_id \in DOMAIN environments
    THEN environments[execute_view.environment_id]
    ELSE <<>>

\* the enabled variables that have a value
Supplied ==
    {i \in DOMAIN RequestedVariables :
        RequestedVariables[i].enabled /\ Len(RequestedVariables[i].values) > 0}

EnvironmentKeys == {RequestedVariables[i].key : i \in Supplied}

\* the value of the variable at its selected index; an index behind the last
\* value selects the last value, a negative one counts from the end
SelectedValueOf(var) ==
    LET n == Len(var.values)
        i == var.selected_value_index
    IN  IF i >= n THEN var.values[n]
        ELSE IF i >= 0 THEN var.values[i + 1]
        ELSE var.values[n + i + 1]

EnvironmentValue(k) ==
    SelectedValueOf(RequestedVariables[CHOOSE i \in Supplied :
                                           RequestedVariables[i].key = k])

CallerInputs == execute_view.input_variables

\* input over environment over workflow
RunStartValue(k) ==
    IF k \in DOMAIN CallerInputs THEN CallerInputs[k]
    ELSE IF k \in EnvironmentKeys THEN EnvironmentValue(k)
    ELSE workflow_variables[k]

\* environment overlaid with input
RecordedValue(k) ==
    IF k \in DOMAIN CallerInputs THEN CallerInputs[k] ELSE EnvironmentValue(k)

====
